---- MODULE Spec2Model ----
(***************************************************************************)
(* Module / industry entitlement engine of the tenant service.             *)
(*                                                                         *)
(* The relational tables are sets of rows, the Redis cache is a map from   *)
(* key to an optional value, the Kafka bus is one queue per topic.  Every  *)
(* service method is one action; the assignment upsert is also modelled    *)
(* step by step (lookup, then insert-or-update and commit) for the         *)
(* interleavings of concurrent requests.                                   *)
(***************************************************************************)
EXTENDS Integers, Sequences, FiniteSets, TLC

VARIABLES
    module_registry,            \* table module_registry
    industry_templates,         \* table industry_templates
    industry_module_templates,  \* table industry_module_templates
    organizations,              \* table organizations (industry columns)
    organization_modules,       \* table organization_modules
    redis,                      \* cache: key -> {} (missing) or {value}
    bus,                        \* Kafka: topic -> sequence of events
    now,                        \* wall clock read by datetime.utcnow()
    sessions,                   \* in-flight requests (step-level model)
    last,                       \* the call that completed last, with its result
    prev                        \* the call that completed before it

vars == <<module_registry, industry_templates, industry_module_templates,
          organizations, organization_modules, redis, bus, now, sessions,
          last, prev>>

----------------------------------------------------------------------------
(* Bounds and input universes *)

MaxTime == 2        \* clock values 1..MaxTime
MaxBulk == 2        \* longest module_ids list of a bulk request
MaxBus == 1         \* events a topic holds before the broker stops acknowledging

ModuleIds == {"projects", "crm"}
OrgIds == {"acme", "beta"}
IndustryCodes == {"tech"}
IndustryNames == {"Technology"}
Procs == {"p1", "p2"}

None == "None"              \* Python None / SQL NULL for string-valued fields
EmptyDict == "{}"           \* the dict {}
Configs == {EmptyDict, "{k:1}"}
NullTime == 0               \* enabled_at IS NULL

Times == 1..MaxTime

----------------------------------------------------------------------------
(* Generic helpers *)

SeqsUpTo(S, n) == UNION {[1..k -> S] : k \in 0..n}

Range(s) == {s[i] : i \in DOMAIN s}

\* the sequences that list every element of S exactly once
Orderings(S) == {s \in [1..Cardinality(S) -> S] : Range(s) = S}

\* .first() of a query without ORDER BY: no row, or any one of the matches
First(S) == IF S = {} THEN {{}} ELSE {{r} : r \in S}

\* `x or {}`
OrEmptyDict(x) == IF x = None \/ x = EmptyDict THEN EmptyDict ELSE x

The(S) == CHOOSE x \in S : TRUE

----------------------------------------------------------------------------
(* Repository layer: queries and writes on the tables *)

\* ModuleRegistryRepository.get_by_id: {} or {entry} (module_id is the primary key)
RegistryGetById(reg, module_id) == {m \in reg : m.module_id = module_id}

\* ModuleRegistryRepository.create
RegistryCreate(reg, module_id) ==
    reg \cup {[module_id |-> module_id, is_active |-> TRUE]}

\* ModuleRegistryRepository.list_all
RegistryListAll(reg, active_only) ==
    IF active_only THEN {m \in reg : m.is_active = TRUE} ELSE reg

\* ModuleRegistryRepository.activate / deactivate: set the flag of one entry
RegistrySetActive(reg, m, flag) ==
    (reg \ {m}) \cup {[m EXCEPT !.is_active = flag]}

\* variant: the is_active filter dropped
ValidIdsIgnoringActive(reg, module_ids) ==
    {m.module_id : m \in {x \in reg : x.module_id \in Range(module_ids)}}

\* ModuleRegistryRepository.validate_modules_exist: the set of valid ids
\* (present and active)
ValidIds(reg, module_ids) ==
    {m.module_id : m \in {x \in reg : x.module_id \in Range(module_ids)
                                      /\ x.is_active = TRUE}}

\* variant: no id is ever reported invalid
InvalidIdsNone(reg, module_ids) == <<>>

\* ... and the invalid ids, in input order (duplicates kept)
InvalidIds(reg, module_ids) ==
    SelectSeq(module_ids, LAMBDA mid : mid \notin ValidIds(reg, module_ids))

\* OrganizationModuleRepository.get_by_org_and_module, before .first()
OrgModuleMatches(rows, organization_id, module_id) ==
    {r \in rows : r.organization_id = organization_id /\ r.module_id = module_id}

\* variant: the organization filter dropped
ListByOrganizationAll(rows, organization_id) == rows

\* variant: rows of deactivated modules are left out
ListByOrganizationActive(rows, organization_id) ==
    {r \in rows : /\ r.organization_id = organization_id
                  /\ \E e \in module_registry : e.module_id = r.module_id /\ e.is_active}

\* OrganizationModuleRepository.list_by_organization
ListByOrganization(rows, organization_id) ==
    {r \in rows : r.organization_id = organization_id}

\* uuid.uuid4 primary key: an id no row and no open session holds
HeldIds == UNION {sessions[p].found : p \in Procs}
FreshId(rows) ==
    CHOOSE i \in 1..(Cardinality(rows) + Cardinality(HeldIds) + 1) :
        /\ i \notin {r.id : r \in rows}
        /\ i \notin {r.id : r \in HeldIds}
        /\ \A j \in 1..(i - 1) : j \in {r.id : r \in rows} \cup {r.id : r \in HeldIds}

\* OrganizationModuleCreate: the pydantic request body
ModuleCreate(module_id, is_enabled, config) ==
    [module_id |-> module_id, is_enabled |-> is_enabled, config |-> config]

\* variant: the update branch stamps enabled_at again
CouUpdateRestamping(found, module_data, t) ==
    [found EXCEPT !.is_enabled = module_data.is_enabled,
                  !.config = module_data.config,
                  !.enabled_at = IF module_data.is_enabled THEN t ELSE @]

\* variant: the update branch keeps the row as it was
CouUpdateKeeping(found, module_data, t) == found

\* create_or_update, branch `if module:` -- the row as rewritten
CouUpdate(found, module_data, t) ==
    [found EXCEPT !.is_enabled = module_data.is_enabled,
                  !.config = module_data.config]

\* create_or_update, branch `else:` -- the row inserted
CouInsert(rows, organization_id, module_data, t) ==
    [id |-> FreshId(rows),
     organization_id |-> organization_id,
     module_id |-> module_data.module_id,
     is_enabled |-> module_data.is_enabled,
     config |-> module_data.config,
     enabled_at |-> IF module_data.is_enabled THEN t ELSE NullTime]

\* create_or_update that loses its write
CreateOrUpdateNoCommit(rows, found, organization_id, module_data, t) == rows

\* OrganizationModuleRepository.create_or_update after its lookup returned
\* `found` ({} or {row}); t is what datetime.utcnow() returns if it is called
CreateOrUpdate(rows, found, organization_id, module_data, t) ==
    IF found # {}
    THEN (rows \ found) \cup {CouUpdate(The(found), module_data, t)}
    ELSE rows \cup {CouInsert(rows, organization_id, module_data, t)}

\* whether create_or_update reads the clock
CouReadsClock(found, module_data) == found = {} /\ module_data.is_enabled

\* OrganizationModuleUpdate.dict(exclude_unset=True) applied with setattr;
\* a field is "unset", the explicit None, or a value
ApplyUpdateData(row, upd) ==
    [row EXCEPT
        !.is_enabled = IF upd.is_enabled = "unset" THEN @ ELSE upd.is_enabled = "True",
        !.config = IF upd.config = "unset" THEN @ ELSE upd.config]

\* variant: the `not module.enabled_at` test dropped
UpdateStampsAlways(row, upd) == upd.is_enabled = "True"

\* `'is_enabled' in update_data and update_data['is_enabled'] and not module.enabled_at`
UpdateStamps(row, upd) == upd.is_enabled = "True" /\ row.enabled_at = NullTime

\* OrganizationModuleRepository.update on the row found
RepoUpdate(row, upd, t) ==
    LET r == ApplyUpdateData(row, upd)
    IN  IF UpdateStamps(row, upd) THEN [r EXCEPT !.enabled_at = t] ELSE r

\* NOT NULL columns is_enabled and config: an explicit None fails the commit
UpdateViolatesNotNull(upd) == upd.is_enabled = None \/ upd.config = None

\* variant: get_by_code that skips soft-deleted templates
TemplateGetByCodeActive(templates, industry_code) ==
    {t \in templates : t.industry_code = industry_code /\ t.is_active}

\* IndustryTemplateRepository.get_by_code: {} or {template} (industry_code is UNIQUE)
TemplateGetByCode(templates, industry_code) ==
    {t \in templates : t.industry_code = industry_code}

\* IndustryModuleTemplateRepository.get_modules_for_industry (join on the
\* template's code); the ORDER BY display_order is applied by the readers
ModulesForIndustry(links, industry_code) ==
    {l \in links : l.industry_code = industry_code}

----------------------------------------------------------------------------
(* Cache layer: RedisClient and CacheService *)

OrgModulesKey(organization_id) == <<"org", organization_id, "modules">>
IndustryModulesKey(industry_code) == <<"industry", industry_code, "modules">>
IndustryTemplateKey(industry_code) == <<"industry", industry_code, "template">>
MODULE_REGISTRY_KEY == <<"modules", "registry", "all">>
ALL_INDUSTRIES_KEY == <<"industries", "all", "">>
\* the key list_all uses when active_only ("modules:registry:active")
REGISTRY_ACTIVE_KEY == <<"modules", "registry", "active">>

CacheKeys ==
    {OrgModulesKey(o) : o \in OrgIds}
    \cup {IndustryModulesKey(c) : c \in IndustryCodes}
    \cup {IndustryTemplateKey(c) : c \in IndustryCodes}
    \cup {MODULE_REGISTRY_KEY, ALL_INDUSTRIES_KEY, REGISTRY_ACTIVE_KEY}

\* json.dumps of a list of model_dump() dicts: every response dict carries a
\* uuid.UUID (id) and a datetime (created_at), which json.dumps rejects with
\* TypeError; only the empty list encodes
JsonSerializable(items) == items = {}

\* RedisClient.get that never finds the key
RedisGetNever(cache, key, redis_ok) == {}

\* RedisClient.get that answers from the store of a client that is down
RedisGetAlways(cache, key, redis_ok) == cache[key]

\* RedisClient.get: None (here {}) on a miss or on any Redis error
RedisGet(cache, key, redis_ok) == IF redis_ok THEN cache[key] ELSE {}

\* RedisClient.set: json.dumps, then SETEX; every exception is swallowed
RedisSet(cache, key, value, redis_ok) ==
    IF redis_ok /\ JsonSerializable(value)
    THEN [cache EXCEPT ![key] = {value}]
    ELSE cache

RedisDeleteNothing(cache, key, redis_ok) == cache

\* RedisClient.delete: DEL; every exception is swallowed
RedisDelete(cache, key, redis_ok) ==
    IF redis_ok THEN [cache EXCEPT ![key] = {}] ELSE cache

----------------------------------------------------------------------------
(* Event layer: publish_module_event and KafkaProducerWrapper.send_event *)

SystemOrg == "00000000-0000-0000-0000-000000000000"

\* event types, as their dot-separated parts
ModuleAssigned == <<"module", "assigned">>
ModuleUnassigned == <<"module", "unassigned">>
ModuleBulkAssigned == <<"module", "bulk_assigned">>
ModuleRegistered == <<"module", "registered">>

ModuleUpdated == <<"module", "updated">>
ModuleConfigUpdated == <<"module", "config_updated">>
IndustryTemplateApplied == <<"industry", "template_applied">>

\* the keys of event_classes in publish_module_event
EventTypes ==
    {ModuleAssigned, ModuleUnassigned, ModuleBulkAssigned, ModuleRegistered,
     ModuleUpdated, ModuleConfigUpdated, IndustryTemplateApplied}

\* f"tenant.module.{event_type.split('.')[-1]}"
TopicOf(event_type) == <<"tenant", "module", event_type[Len(event_type)]>>

Topics == {TopicOf(e) : e \in EventTypes}

\* send_event returns True once the broker acknowledged the record; a topic
\* that already holds MaxBus unconsumed records does not acknowledge
\* (future.get times out, a KafkaError), as does an unreachable broker
\* the records the topics of b still hold
Pending(b) == UNION {Range(b[t]) : t \in DOMAIN b}

\* BaseEvent.timestamp, as the rank of the event among the pending ones: an
\* event is emitted after every event the bus holds at that time
NextEmitted(b) ==
    1 + (CHOOSE n \in {0} \cup {e.emitted : e \in Pending(b)} :
            \A e \in Pending(b) : e.emitted <= n)

PublishModuleEvent(b, event_type, organization_id, kafka_ok) ==
    LET topic == TopicOf(event_type)
    IN  IF kafka_ok /\ Len(b[topic]) < MaxBus
        THEN [b EXCEPT ![topic] = Append(@, [event_type |-> event_type,
                                              organization_id |-> organization_id,
                                              emitted |-> NextEmitted(b)])]
        ELSE b

\* the topics consume_module_events subscribes to
SubscribedTopics ==
    {<<"tenant", "module", "assigned">>, <<"tenant", "module", "unassigned">>,
     <<"tenant", "module", "bulk_assigned">>, <<"tenant", "module", "template_applied">>,
     <<"tenant", "module", "config_updated">>}

\* the keys of EVENT_HANDLERS
HandledTypes ==
    {ModuleAssigned, ModuleUnassigned, ModuleBulkAssigned, IndustryTemplateApplied,
     ModuleConfigUpdated}

----------------------------------------------------------------------------
(* Call records (history variables): what was called with which arguments, *)
(* what it returned; cached_before tells whether the tenant's cache key    *)
(* held a value when the call began                                        *)

NoCall ==
    [op |-> "none", org |-> None, module_id |-> None, module_ids |-> <<>>,
     industry_code |-> None, is_enabled |-> None, config |-> None,
     result |-> "ok", invalid |-> <<>>, value |-> {}, cached_before |-> FALSE]

Summary(c) ==
    [op |-> c.op, org |-> c.org, module_id |-> c.module_id,
     industry_code |-> c.industry_code, is_enabled |-> c.is_enabled,
     config |-> c.config, result |-> c.result, cached_before |-> c.cached_before]

Returns(call) ==
    /\ last' = call
    /\ prev' = Summary(last)

\* a request between the lookup of create_or_update and its commit holds the
\* row the lookup returned ({} or {row}) and its arguments
IdleSession == [pc |-> "idle", found |-> {}, call |-> NoCall]

BoolStr(b) == IF b THEN "True" ELSE "False"

Max(S) == CHOOSE x \in S : \A y \in S : y <= x

TypeOK ==
    /\ module_registry \subseteq [module_id : ModuleIds, is_active : BOOLEAN]
    /\ industry_templates \subseteq
         [industry_code : IndustryCodes, industry_name : IndustryNames, is_active : BOOLEAN]
    /\ \A r \in organization_modules :
         /\ r.organization_id \in OrgIds
         /\ r.module_id \in ModuleIds
         /\ r.is_enabled \in BOOLEAN
         /\ r.config \in Configs
         /\ r.enabled_at \in {NullTime} \cup Times
    /\ \A k \in CacheKeys : redis[k] \in {{}, {{}}}
    /\ \A t \in Topics : Len(bus[t]) <= MaxBus
    /\ now \in Times

Init ==
    /\ module_registry = {}
    /\ industry_templates = {}
    /\ industry_module_templates = {}
    /\ organizations = [o \in OrgIds |-> [industry_code |-> None, industry_name |-> None]]
    /\ organization_modules = {}
    /\ redis = [k \in CacheKeys |-> {}]
    /\ bus = [t \in Topics |-> <<>>]
    /\ now = 1
    /\ sessions = [p \in Procs |-> IdleSession]
    /\ last = NoCall
    /\ prev = Summary(NoCall)

----------------------------------------------------------------------------
(* Module registry service *)

\* ModuleRegistryService.register_module
RegisterModule(module_id, kafka_ok, redis_ok) ==
    LET existing == RegistryGetById(module_registry, module_id)
        call == [NoCall EXCEPT !.op = "register", !.module_id = module_id]
    IN
    /\ IF existing # {}
        THEN /\ Returns([call EXCEPT !.result = "ValidationError"])
             /\ UNCHANGED <<module_registry, redis, bus>>
        ELSE /\ module_registry' = RegistryCreate(module_registry, module_id)
             /\ bus' = PublishModuleEvent(bus, ModuleRegistered, SystemOrg, kafka_ok)
             /\ redis' = RedisDelete(redis, MODULE_REGISTRY_KEY, redis_ok)
             /\ Returns(call)
    /\ UNCHANGED <<industry_templates, industry_module_templates, organizations,
                   organization_modules, now, sessions>>

\* ModuleRegistryService.activate_module / deactivate_module
SetModuleActive(op, module_id, flag, redis_ok) ==
    LET existing == RegistryGetById(module_registry, module_id)
        call == [NoCall EXCEPT !.op = op, !.module_id = module_id]
    IN  IF existing = {}
        THEN /\ Returns([call EXCEPT !.result = "NotFound"])
             /\ UNCHANGED <<module_registry, redis>>
        ELSE /\ module_registry' = RegistrySetActive(module_registry, The(existing), flag)
             /\ redis' = RedisDelete(redis, MODULE_REGISTRY_KEY, redis_ok)
             /\ Returns(call)

ActivateModule(module_id, redis_ok) ==
    /\ SetModuleActive("activate", module_id, TRUE, redis_ok)
    /\ UNCHANGED <<industry_templates, industry_module_templates, organizations,
                   organization_modules, bus, now, sessions>>

DeactivateModule(module_id, redis_ok) ==
    /\ SetModuleActive("deactivate", module_id, FALSE, redis_ok)
    /\ UNCHANGED <<industry_templates, industry_module_templates, organizations,
                   organization_modules, bus, now, sessions>>

\* ModuleRegistryService.update_module: the columns it can change (name,
\* description, version, ...) are outside the model, so the entry stays as
\* it is; the event and the invalidation are those of the code
UpdateRegistryModule(module_id, kafka_ok, redis_ok) ==
    LET existing == RegistryGetById(module_registry, module_id)
        call == [NoCall EXCEPT !.op = "update_registry", !.module_id = module_id]
    IN
    /\ IF existing = {}
       THEN /\ Returns([call EXCEPT !.result = "NotFound"])
            /\ UNCHANGED <<redis, bus>>
       ELSE /\ bus' = PublishModuleEvent(bus, ModuleUpdated, SystemOrg, kafka_ok)
            /\ redis' = RedisDelete(redis, MODULE_REGISTRY_KEY, redis_ok)
            /\ Returns(call)
    /\ UNCHANGED <<module_registry, industry_templates, industry_module_templates,
                   organizations, organization_modules, now, sessions>>

ListAllOp(active_only) == IF active_only THEN "list_all_active" ELSE "list_all"

\* ModuleRegistryService.list_all: cache first under the key of the flag,
\* then the table, then populate
ListAll(active_only, redis_ok) ==
    LET cache_key == IF active_only THEN REGISTRY_ACTIVE_KEY ELSE MODULE_REGISTRY_KEY
        cached == RedisGet(redis, cache_key, redis_ok)
        result == RegistryListAll(module_registry, active_only)
        call == [NoCall EXCEPT !.op = ListAllOp(active_only),
                               !.cached_before = redis[cache_key] # {}]
    IN
    /\ IF cached # {}
       THEN /\ Returns([call EXCEPT !.value = The(cached)])
            /\ UNCHANGED redis
       ELSE /\ redis' = RedisSet(redis, cache_key, result, redis_ok)
            /\ Returns([call EXCEPT !.value = result])
    /\ UNCHANGED <<module_registry, industry_templates, industry_module_templates,
                   organizations, organization_modules, bus, now, sessions>>

----------------------------------------------------------------------------
(* Module service: the tenant's assignments *)

StoreFrame == UNCHANGED <<module_registry, industry_templates,
                          industry_module_templates, organizations, sessions>>

\* ModuleService.enable_module (POST /modules/organization/{id}): the upsert
\* alone, with no registry lookup, no event and no cache invalidation
EnableModule(organization_id, module_id, is_enabled, config, t) ==
    LET module_data == ModuleCreate(module_id, is_enabled, config)
        call == [NoCall EXCEPT !.op = "enable", !.org = organization_id,
                               !.module_id = module_id, !.config = config,
                               !.is_enabled = BoolStr(is_enabled),
                               !.cached_before = redis[OrgModulesKey(organization_id)] # {}]
    IN
    \E found \in First(OrgModuleMatches(organization_modules, organization_id, module_id)) :
        LET rows == CreateOrUpdate(organization_modules, found, organization_id,
                                   module_data, t)
        IN  /\ organization_modules' = rows
            /\ now' = IF CouReadsClock(found, module_data) THEN t ELSE now
            /\ Returns([call EXCEPT !.value = OrgModuleMatches(rows, organization_id, module_id)])
            /\ UNCHANGED <<redis, bus>>
            /\ StoreFrame

\* ModuleService.update_module (PATCH /modules/organization/{id}/{module_id})
UpdateModule(organization_id, module_id, upd, t) ==
    LET call == [NoCall EXCEPT !.op = "update", !.org = organization_id,
                               !.module_id = module_id, !.config = upd.config,
                               !.is_enabled = upd.is_enabled,
                               !.cached_before = redis[OrgModulesKey(organization_id)] # {}]
    IN
    \E found \in First(OrgModuleMatches(organization_modules, organization_id, module_id)) :
        /\ IF found = {}
           THEN /\ Returns([call EXCEPT !.result = "NotFound"])
                /\ UNCHANGED <<organization_modules, now>>
           ELSE IF UpdateViolatesNotNull(upd)
           THEN /\ Returns([call EXCEPT !.result = "StoreError"])
                /\ UNCHANGED <<organization_modules, now>>
           ELSE /\ organization_modules' =
                      (organization_modules \ found) \cup {RepoUpdate(The(found), upd, t)}
                /\ now' = IF UpdateStamps(The(found), upd) THEN t ELSE now
                /\ Returns([call EXCEPT !.value = {RepoUpdate(The(found), upd, t)}])
        /\ UNCHANGED <<redis, bus>>
        /\ StoreFrame

\* ModuleService.list_modules: cache first, then the table, then populate
ListModules(organization_id, redis_ok) ==
    LET key == OrgModulesKey(organization_id)
        cached == RedisGet(redis, key, redis_ok)
        result == ListByOrganization(organization_modules, organization_id)
        call == [NoCall EXCEPT !.op = "list", !.org = organization_id,
                               !.cached_before = redis[key] # {}]
    IN
    /\ IF cached # {}
       THEN /\ Returns([call EXCEPT !.value = The(cached)])
            /\ UNCHANGED redis
       ELSE /\ redis' = RedisSet(redis, key, result, redis_ok)
            /\ Returns([call EXCEPT !.value = result])
    /\ UNCHANGED <<organization_modules, bus, now>>
    /\ StoreFrame

\* variant: the is_active test dropped
ModuleInactiveNever(module_registry_entry) == FALSE

\* assign_module, `if not module_registry.is_active:`
ModuleInactive(module_registry_entry) == ~ module_registry_entry.is_active

\* ModuleService.assign_module
AssignModule(organization_id, module_id, config, t, kafka_ok, redis_ok) ==
    LET module_registry_entry == RegistryGetById(module_registry, module_id)
        module_data == ModuleCreate(module_id, TRUE, OrEmptyDict(config))
        call == [NoCall EXCEPT !.op = "assign", !.org = organization_id,
                               !.module_id = module_id, !.config = config,
                               !.cached_before = redis[OrgModulesKey(organization_id)] # {}]
    IN
    /\ IF module_registry_entry = {}
       THEN /\ Returns([call EXCEPT !.result = "NotFound"])
            /\ UNCHANGED <<organization_modules, redis, bus, now>>
       ELSE IF ModuleInactive(The(module_registry_entry))
       THEN /\ Returns([call EXCEPT !.result = "ValidationError"])
            /\ UNCHANGED <<organization_modules, redis, bus, now>>
       ELSE \E found \in First(OrgModuleMatches(organization_modules,
                                                organization_id, module_id)) :
            LET rows == CreateOrUpdate(organization_modules, found, organization_id,
                                       module_data, t)
            IN  /\ organization_modules' = rows
                /\ now' = IF CouReadsClock(found, module_data) THEN t ELSE now
                /\ bus' = PublishModuleEvent(bus, ModuleAssigned, organization_id, kafka_ok)
                /\ redis' = RedisDelete(redis, OrgModulesKey(organization_id), redis_ok)
                /\ Returns([call EXCEPT !.value = rows \ (organization_modules \ found)])
    /\ StoreFrame

\* ModuleService.unassign_module
UnassignModule(organization_id, module_id, kafka_ok, redis_ok) ==
    LET call == [NoCall EXCEPT !.op = "unassign", !.org = organization_id,
                               !.module_id = module_id,
                               !.cached_before = redis[OrgModulesKey(organization_id)] # {}]
    IN
    \E found \in First(OrgModuleMatches(organization_modules, organization_id, module_id)) :
        /\ IF found = {}
           THEN /\ Returns([call EXCEPT !.result = "NotFound"])
                /\ UNCHANGED <<organization_modules, redis, bus>>
           ELSE /\ organization_modules' = organization_modules \ found
                /\ bus' = PublishModuleEvent(bus, ModuleUnassigned, organization_id, kafka_ok)
                /\ redis' = RedisDelete(redis, OrgModulesKey(organization_id), redis_ok)
                /\ Returns(call)
        /\ UNCHANGED now
        /\ StoreFrame

\* default_configs of bulk_assign_modules: {mt.module_id: mt.default_config}
\* when an industry_code is given and its template exists, else {}
DefaultConfigs(templates, links, industry_code) ==
    IF industry_code # None /\ TemplateGetByCode(templates, industry_code) # {}
    THEN ModulesForIndustry(links, industry_code)
    ELSE {}

DefaultConfigIgnoringTemplate(default_configs, module_id) == EmptyDict

\* default_configs.get(module_id, {})
DefaultConfigGet(default_configs, module_id) ==
    IF \E l \in default_configs : l.module_id = module_id
    THEN (CHOOSE l \in default_configs : l.module_id = module_id).default_config
    ELSE EmptyDict

\* the clock readings of one request: non-decreasing, none before `now`
ClockReadings(n) ==
    {ts \in [1..n -> Times] :
        /\ \A i \in 1..n : ts[i] >= now
        /\ \A i \in 1..(n - 1) : ts[i] <= ts[i + 1]}

\* the loop `for module_id in valid_ids:` of bulk_assign_modules from its
\* i-th iteration on: the tables it can leave (one per choice of .first())
RECURSIVE BulkLoop(_, _, _, _, _, _)
BulkLoop(rows, organization_id, order, default_configs, ts, i) ==
    IF i > Len(order)
    THEN {rows}
    ELSE LET module_data == ModuleCreate(order[i], TRUE,
                                         DefaultConfigGet(default_configs, order[i]))
         IN  UNION {BulkLoop(CreateOrUpdate(rows, found, organization_id, module_data, ts[i]),
                             organization_id, order, default_configs, ts, i + 1) :
                    found \in First(OrgModuleMatches(rows, organization_id, order[i]))}

\* the clock after a request that inserted rows stamped with utcnow()
ClockAfter(old_rows, new_rows) ==
    Max({now} \cup {r.enabled_at : r \in {x \in new_rows : x.id \notin {o.id : o \in old_rows}}})

\* ModuleService.bulk_assign_modules, what it does to the assignment table,
\* the bus and the cache, and what it returns; `order` is the iteration order
\* of list(valid_ids), ts the clock readings of the iterations
BulkAssign(call, organization_id, module_ids, industry_code, order, ts, kafka_ok, redis_ok) ==
    LET invalid_ids == InvalidIds(module_registry, module_ids)
        default_configs == DefaultConfigs(industry_templates, industry_module_templates,
                                          industry_code)
    IN  IF invalid_ids # <<>>
        THEN /\ Returns([call EXCEPT !.result = "ValidationError", !.invalid = invalid_ids])
             /\ UNCHANGED <<organization_modules, redis, bus, now>>
        ELSE \E rows \in BulkLoop(organization_modules, organization_id, order,
                                  default_configs, ts, 1) :
             /\ organization_modules' = rows
             /\ now' = ClockAfter(organization_modules, rows)
             /\ bus' = PublishModuleEvent(bus, ModuleBulkAssigned, organization_id, kafka_ok)
             /\ redis' = RedisDelete(redis, OrgModulesKey(organization_id), redis_ok)
             /\ Returns([call EXCEPT !.value =
                    {r \in rows : r.organization_id = organization_id
                                  /\ r.module_id \in Range(order)}])

\* POST /modules/bulk-assign/{organization_id}
BulkAssignModules(organization_id, module_ids, industry_code, kafka_ok, redis_ok) ==
    LET call == [NoCall EXCEPT !.op = "bulk", !.org = organization_id,
                               !.module_ids = module_ids, !.industry_code = industry_code,
                               !.cached_before = redis[OrgModulesKey(organization_id)] # {}]
    IN
    \E order \in Orderings(ValidIds(module_registry, module_ids)) :
    \E ts \in ClockReadings(Len(order)) :
        /\ BulkAssign(call, organization_id, module_ids, industry_code, order, ts,
                      kafka_ok, redis_ok)
        /\ UNCHANGED organizations
        /\ UNCHANGED <<module_registry, industry_templates, industry_module_templates, sessions>>

\* bulk_assign_modules when the database fails the k-th create_or_update of
\* the loop (db.commit() raises): the first k-1 iterations have committed,
\* the exception leaves the function before the publish and the
\* invalidation; the call record keeps the rows committed before the failure
BulkAssignStoreError(organization_id, module_ids, industry_code, order, ts, k) ==
    LET call == [NoCall EXCEPT !.op = "bulk", !.org = organization_id,
                               !.module_ids = module_ids, !.industry_code = industry_code,
                               !.cached_before = redis[OrgModulesKey(organization_id)] # {}]
        default_configs == DefaultConfigs(industry_templates, industry_module_templates,
                                          industry_code)
        done == SubSeq(order, 1, k - 1)
    IN
    /\ InvalidIds(module_registry, module_ids) = <<>>
    /\ order \in Orderings(ValidIds(module_registry, module_ids))
    /\ k \in 1..Len(order)
    /\ ts \in ClockReadings(Len(order))
    /\ \E rows \in BulkLoop(organization_modules, organization_id, done, default_configs, ts, 1) :
          /\ organization_modules' = rows
          /\ now' = ClockAfter(organization_modules, rows)
          /\ Returns([call EXCEPT !.result = "StoreError", !.value =
                 {r \in rows : r.organization_id = organization_id
                               /\ r.module_id \in Range(done)}])
    /\ UNCHANGED <<redis, bus, organizations>>
    /\ UNCHANGED <<module_registry, industry_templates, industry_module_templates, sessions>>

----------------------------------------------------------------------------
(* Concurrent requests: create_or_update step by step *)

\* the UPDATE that db.commit() flushes for a loaded row: the columns whose
\* assigned value differs from the loaded one, WHERE id = the loaded row's
Flush(current, loaded, module_data) ==
    [current EXCEPT
        !.is_enabled = IF loaded.is_enabled # module_data.is_enabled
                       THEN module_data.is_enabled ELSE @,
        !.config = IF loaded.config # module_data.config THEN module_data.config ELSE @]

\* what the handler `op` answers before it reaches create_or_update
Validation(op, module_id) ==
    LET entry == RegistryGetById(module_registry, module_id)
    IN  CASE op = "assign" -> IF entry = {} THEN "NotFound"
                              ELSE IF ModuleInactive(The(entry)) THEN "ValidationError"
                              ELSE "ok"
          [] op = "bulk" -> IF InvalidIds(module_registry, <<module_id>>) # <<>>
                            THEN "ValidationError" ELSE "ok"
          [] OTHER -> "ok"

\* request p of kind op (assign_module, bulk_assign_modules of one id,
\* enable_module) from its start to the .first() of create_or_update's lookup
CreateOrUpdateLookup(p, op, organization_id, module_id, config) ==
    LET call == [NoCall EXCEPT !.op = op, !.org = organization_id,
                               !.module_id = module_id, !.config = config]
    IN
    /\ sessions[p].pc = "idle"
    /\ IF Validation(op, module_id) # "ok"
       THEN /\ Returns([call EXCEPT !.result = Validation(op, module_id)])
            /\ UNCHANGED sessions
       ELSE /\ \E found \in First(OrgModuleMatches(organization_modules,
                                                   organization_id, module_id)) :
                  sessions' = [sessions EXCEPT ![p] =
                                  [pc |-> "found", found |-> found, call |-> call]]
            /\ UNCHANGED <<last, prev>>
    /\ UNCHANGED <<module_registry, industry_templates, industry_module_templates,
                   organizations, organization_modules, redis, bus, now>>

\* request p from the branch on the lookup's result to its response: the
\* insert or the update, db.commit(), then the handler's event and cache
\* invalidation
CreateOrUpdateCommit(p, t, kafka_ok, redis_ok) ==
    LET s == sessions[p]
        call == s.call
        module_data == ModuleCreate(call.module_id, TRUE, OrEmptyDict(call.config))
        rows == IF s.found = {}
                THEN organization_modules
                       \cup {CouInsert(organization_modules, call.org, module_data, t)}
                ELSE {IF r.id = The(s.found).id
                      THEN Flush(r, The(s.found), module_data) ELSE r :
                      r \in organization_modules}
    IN
    /\ s.pc = "found"
    /\ organization_modules' = rows
    /\ now' = IF CouReadsClock(s.found, module_data) THEN t ELSE now
    /\ bus' = CASE call.op = "assign" ->
                     PublishModuleEvent(bus, ModuleAssigned, call.org, kafka_ok)
                [] call.op = "bulk" ->
                     PublishModuleEvent(bus, ModuleBulkAssigned, call.org, kafka_ok)
                [] OTHER -> bus
    /\ redis' = IF call.op = "enable" THEN redis
                ELSE RedisDelete(redis, OrgModulesKey(call.org), redis_ok)
    /\ sessions' = [sessions EXCEPT ![p] = IdleSession]
    /\ Returns([call EXCEPT !.value = OrgModuleMatches(rows, call.org, call.module_id)])
    /\ UNCHANGED <<module_registry, industry_templates, industry_module_templates,
                   organizations>>

----------------------------------------------------------------------------
(* Concurrent requests: the read-through of list_modules, the write path   *)
(* of assign_module / unassign_module, and the consumer, step by step      *)

\* list_modules of request p up to its store read: a hit answers from the
\* cache, a miss reads the table and keeps the result for the populate
ListModulesRead(p, organization_id, redis_ok) ==
    LET key == OrgModulesKey(organization_id)
        cached == RedisGet(redis, key, redis_ok)
        result == ListByOrganization(organization_modules, organization_id)
        call == [NoCall EXCEPT !.op = "list", !.org = organization_id,
                               !.cached_before = redis[key] # {}]
    IN
    /\ sessions[p].pc = "idle"
    /\ IF cached # {}
       THEN /\ Returns([call EXCEPT !.value = The(cached)])
            /\ UNCHANGED sessions
       ELSE /\ sessions' = [sessions EXCEPT ![p] =
                   [pc |-> "listed", found |-> {}, call |-> [call EXCEPT !.value = result]]]
            /\ UNCHANGED <<last, prev>>
    /\ UNCHANGED <<module_registry, industry_templates, industry_module_templates,
                   organizations, organization_modules, redis, bus, now>>

\* list_modules of request p from set_org_modules to its response
ListModulesPopulate(p, redis_ok) ==
    LET call == sessions[p].call
    IN
    /\ sessions[p].pc = "listed"
    /\ redis' = RedisSet(redis, OrgModulesKey(call.org), call.value, redis_ok)
    /\ sessions' = [sessions EXCEPT ![p] = IdleSession]
    /\ Returns(call)
    /\ UNCHANGED <<module_registry, industry_templates, industry_module_templates,
                   organizations, organization_modules, bus, now>>

\* assign_module / unassign_module of request p up to db.commit(): the
\* validation, then the upsert or the delete
WriteCommit(p, op, organization_id, module_id, config, t) ==
    LET call == [NoCall EXCEPT !.op = op, !.org = organization_id,
                               !.module_id = module_id, !.config = config,
                               !.cached_before = redis[OrgModulesKey(organization_id)] # {}]
        module_data == ModuleCreate(module_id, TRUE, OrEmptyDict(config))
    IN
    /\ sessions[p].pc = "idle"
    /\ \E found \in First(OrgModuleMatches(organization_modules, organization_id, module_id)) :
          LET refused == IF op = "unassign"
                         THEN (IF found = {} THEN "NotFound" ELSE "ok")
                         ELSE Validation(op, module_id)
              rows == IF op = "unassign"
                      THEN organization_modules \ found
                      ELSE CreateOrUpdate(organization_modules, found, organization_id,
                                          module_data, t)
          IN  IF refused # "ok"
              THEN /\ Returns([call EXCEPT !.result = refused])
                   /\ UNCHANGED <<sessions, organization_modules, now>>
              ELSE /\ organization_modules' = rows
                   /\ now' = IF op = "assign" /\ CouReadsClock(found, module_data)
                             THEN t ELSE now
                   /\ sessions' = [sessions EXCEPT ![p] =
                          [pc |-> "committed", found |-> {},
                           call |-> [call EXCEPT !.value =
                                        OrgModuleMatches(rows, organization_id, module_id)]]]
                   /\ UNCHANGED <<last, prev>>
    /\ UNCHANGED <<module_registry, industry_templates, industry_module_templates,
                   organizations, redis, bus>>

\* ... its publish_module_event
WritePublish(p, kafka_ok) ==
    LET call == sessions[p].call
    IN
    /\ sessions[p].pc = "committed"
    /\ bus' = PublishModuleEvent(bus, IF call.op = "assign" THEN ModuleAssigned
                                       ELSE ModuleUnassigned, call.org, kafka_ok)
    /\ sessions' = [sessions EXCEPT ![p].pc = "published"]
    /\ UNCHANGED <<module_registry, industry_templates, industry_module_templates,
                   organizations, organization_modules, redis, now, last, prev>>

\* ... its invalidate_org_modules and its response
WriteInvalidate(p, redis_ok) ==
    LET call == sessions[p].call
    IN
    /\ sessions[p].pc = "published"
    /\ redis' = RedisDelete(redis, OrgModulesKey(call.org), redis_ok)
    /\ sessions' = [sessions EXCEPT ![p] = IdleSession]
    /\ Returns(call)
    /\ UNCHANGED <<module_registry, industry_templates, industry_module_templates,
                   organizations, organization_modules, bus, now>>

\* what the handler of an event's type does to the cache: the five handlers
\* of EVENT_HANDLERS invalidate the tenant's module list; an event of another
\* type is logged ("No handler") and dropped
Handle(cache, event, redis_ok) ==
    IF event.event_type \in HandledTypes /\ event.organization_id \in OrgIds
    THEN RedisDelete(cache, OrgModulesKey(event.organization_id), redis_ok)
    ELSE cache

\* the records left in the topics, numbered again in their order of
\* publication (the numbers stand for the producer's timestamps)
Renumber(b) ==
    [t \in DOMAIN b |->
        [i \in 1..Len(b[t]) |->
            [b[t][i] EXCEPT !.emitted =
                Cardinality({e \in Pending(b) : e.emitted <= b[t][i].emitted})]]]

\* consume_module_events: one poll that returns the oldest record of a
\* subscribed topic, routed to its handler
ConsumeModuleEvents(topic, redis_ok) ==
    /\ topic \in SubscribedTopics
    /\ bus[topic] # <<>>
    /\ bus' = Renumber([bus EXCEPT ![topic] = Tail(@)])
    /\ redis' = Handle(redis, Head(bus[topic]), redis_ok)
    /\ UNCHANGED <<module_registry, industry_templates, industry_module_templates,
                   organizations, organization_modules, now, sessions, last, prev>>

----------------------------------------------------------------------------
(* Industry template service *)

TemplateFrame == UNCHANGED <<module_registry, organizations, organization_modules,
                             bus, now, sessions>>

\* IndustryTemplateService.create_template
CreateTemplate(industry_code, industry_name, redis_ok) ==
    LET existing == TemplateGetByCode(industry_templates, industry_code)
        call == [NoCall EXCEPT !.op = "create_template", !.industry_code = industry_code]
    IN
    /\ IF existing # {}
       THEN /\ Returns([call EXCEPT !.result = "ValidationError"])
            /\ UNCHANGED <<industry_templates, redis>>
       ELSE /\ industry_templates' = industry_templates \cup
                   {[industry_code |-> industry_code, industry_name |-> industry_name,
                     is_active |-> TRUE]}
            /\ redis' = RedisDelete(redis, ALL_INDUSTRIES_KEY, redis_ok)
            /\ Returns(call)
    /\ UNCHANGED industry_module_templates
    /\ TemplateFrame

\* IndustryTemplateService.delete_template (soft delete)
DeleteTemplate(industry_code, redis_ok) ==
    LET existing == TemplateGetByCode(industry_templates, industry_code)
        call == [NoCall EXCEPT !.op = "delete_template", !.industry_code = industry_code]
    IN
    /\ IF existing = {}
       THEN /\ Returns([call EXCEPT !.result = "NotFound"])
            /\ UNCHANGED <<industry_templates, redis>>
       ELSE /\ industry_templates' = (industry_templates \ existing) \cup
                   {[The(existing) EXCEPT !.is_active = FALSE]}
            /\ redis' = RedisDelete(RedisDelete(redis, IndustryTemplateKey(industry_code), redis_ok),
                                    ALL_INDUSTRIES_KEY, redis_ok)
            /\ Returns(call)
    /\ UNCHANGED industry_module_templates
    /\ TemplateFrame

\* IndustryTemplateService.add_module_to_industry
AddModuleToIndustry(industry_code, module_id, is_required, default_config, display_order, redis_ok) ==
    LET template == TemplateGetByCode(industry_templates, industry_code)
        module == RegistryGetById(module_registry, module_id)
        existing == ModulesForIndustry(industry_module_templates, industry_code)
        call == [NoCall EXCEPT !.op = "add_link", !.industry_code = industry_code,
                               !.module_id = module_id, !.config = default_config]
    IN
    /\ IF template = {} \/ module = {}
       THEN /\ Returns([call EXCEPT !.result = "NotFound"])
            /\ UNCHANGED <<industry_module_templates, redis>>
       ELSE IF \E mt \in existing : mt.module_id = module_id
       THEN /\ Returns([call EXCEPT !.result = "ValidationError"])
            /\ UNCHANGED <<industry_module_templates, redis>>
       ELSE /\ industry_module_templates' = industry_module_templates \cup
                   {[industry_code |-> industry_code, module_id |-> module_id,
                     is_required |-> is_required,
                     default_config |-> OrEmptyDict(default_config),
                     display_order |-> display_order]}
            /\ redis' = RedisDelete(RedisDelete(redis, IndustryTemplateKey(industry_code), redis_ok),
                                    IndustryModulesKey(industry_code), redis_ok)
            /\ Returns(call)
    /\ UNCHANGED industry_templates
    /\ TemplateFrame

\* IndustryTemplateService.remove_module_from_industry
RemoveModuleFromIndustry(industry_code, module_id, redis_ok) ==
    LET template == TemplateGetByCode(industry_templates, industry_code)
        call == [NoCall EXCEPT !.op = "remove_link", !.industry_code = industry_code,
                               !.module_id = module_id]
    IN
    /\ \E found \in First({mt \in ModulesForIndustry(industry_module_templates, industry_code) :
                             mt.module_id = module_id}) :
          IF template = {} \/ found = {}
          THEN /\ Returns([call EXCEPT !.result = "NotFound"])
               /\ UNCHANGED <<industry_module_templates, redis>>
          ELSE /\ industry_module_templates' = industry_module_templates \ found
               /\ redis' = RedisDelete(RedisDelete(redis, IndustryTemplateKey(industry_code), redis_ok),
                                       IndustryModulesKey(industry_code), redis_ok)
               /\ Returns(call)
    /\ UNCHANGED industry_templates
    /\ TemplateFrame

\* the rows of get_modules_for_industry as the query returns them: ordered
\* by display_order, ties in any order
OrderedByDisplayOrder(linked) ==
    {f \in [1..Cardinality(linked) -> linked] :
        /\ Range(f) = linked
        /\ \A i \in 1..(Cardinality(linked) - 1) : f[i].display_order <= f[i + 1].display_order}

\* IndustryTemplateService.get_modules: cache first, then the template and
\* its links, without those whose module validate_modules_exist rejects.
\* The cache layer holds a list as the set of its items, so a hit is read
\* back in some order of that set
GetModules(industry_code, redis_ok) ==
    LET key == IndustryModulesKey(industry_code)
        cached == RedisGet(redis, key, redis_ok)
        template == TemplateGetByCode(industry_templates, industry_code)
        call == [NoCall EXCEPT !.op = "get_modules", !.industry_code = industry_code,
                               !.cached_before = redis[key] # {}]
    IN
    /\ IF cached # {}
       THEN /\ \E value \in Orderings(The(cached)) : Returns([call EXCEPT !.value = value])
            /\ UNCHANGED redis
       ELSE IF template = {}
       THEN /\ Returns([call EXCEPT !.result = "NotFound"])
            /\ UNCHANGED redis
       ELSE \E module_templates \in
                  OrderedByDisplayOrder(ModulesForIndustry(industry_module_templates,
                                                           industry_code)) :
            LET module_ids == [i \in DOMAIN module_templates |-> module_templates[i].module_id]
                valid_ids == ValidIds(module_registry, module_ids)
                result == SelectSeq(module_templates, LAMBDA mt : mt.module_id \in valid_ids)
            IN  /\ redis' = RedisSet(redis, key, Range(result), redis_ok)
                /\ Returns([call EXCEPT !.value = result])
    /\ UNCHANGED <<industry_templates, industry_module_templates>>
    /\ TemplateFrame

\* [mt.module_id for mt in module_templates] with module_templates ordered
\* by display_order (ties in any order)
LinkedModuleIds(linked) ==
    {s \in [1..Cardinality(linked) -> {l.module_id : l \in linked}] :
        \E f \in [1..Cardinality(linked) -> linked] :
            /\ Range(f) = linked
            /\ \A i \in 1..Cardinality(linked) : s[i] = f[i].module_id
            /\ \A i \in 1..(Cardinality(linked) - 1) :
                   f[i].display_order <= f[i + 1].display_order}

\* IndustryTemplateService.apply_to_organization (POST /modules/apply-industry/{id},
\* ModuleService.assign_from_industry)
ApplyToOrganization(organization_id, industry_code, kafka_ok, redis_ok) ==
    LET template == TemplateGetByCode(industry_templates, industry_code)
        module_templates == ModulesForIndustry(industry_module_templates, industry_code)
        call == [NoCall EXCEPT !.op = "apply", !.org = organization_id,
                               !.industry_code = industry_code,
                               !.cached_before = redis[OrgModulesKey(organization_id)] # {}]
    IN
    /\ IF template = {}
       THEN /\ Returns([call EXCEPT !.result = "NotFound"])
            /\ UNCHANGED <<organizations, organization_modules, redis, bus, now>>
       ELSE IF module_templates = {}
       THEN /\ Returns([call EXCEPT !.result = "ValidationError"])
            /\ UNCHANGED <<organizations, organization_modules, redis, bus, now>>
       ELSE \E module_ids \in LinkedModuleIds(module_templates) :
            IF InvalidIds(module_registry, module_ids) # <<>>
            THEN /\ Returns([call EXCEPT !.result = "ValidationError",
                                         !.invalid = InvalidIds(module_registry, module_ids)])
                 /\ UNCHANGED <<organizations, organization_modules, redis, bus, now>>
            ELSE /\ organizations' =
                       [organizations EXCEPT ![organization_id] =
                           [industry_code |-> industry_code,
                            industry_name |-> The(template).industry_name]]
                 /\ \E valid_ids \in Orderings(ValidIds(module_registry, module_ids)) :
                    \E order \in Orderings(ValidIds(module_registry, valid_ids)) :
                    \E ts \in ClockReadings(Len(order)) :
                        BulkAssign(call, organization_id, valid_ids, industry_code,
                                   order, ts, kafka_ok, redis_ok)
    /\ UNCHANGED <<module_registry, industry_templates, industry_module_templates, sessions>>

\* apply_to_organization of request p up to its db.commit(): the template,
\* its links, validate_modules_exist, then the organization's industry
\* columns are written; the request keeps the organization row as loaded
ApplyValidateCommit(p, organization_id, industry_code) ==
    LET template == TemplateGetByCode(industry_templates, industry_code)
        module_templates == ModulesForIndustry(industry_module_templates, industry_code)
        call == [NoCall EXCEPT !.op = "apply", !.org = organization_id,
                               !.industry_code = industry_code,
                               !.cached_before = redis[OrgModulesKey(organization_id)] # {}]
    IN
    /\ sessions[p].pc = "idle"
    /\ IF template = {}
       THEN /\ Returns([call EXCEPT !.result = "NotFound"])
            /\ UNCHANGED <<organizations, sessions>>
       ELSE IF module_templates = {}
       THEN /\ Returns([call EXCEPT !.result = "ValidationError"])
            /\ UNCHANGED <<organizations, sessions>>
       ELSE \E module_ids \in LinkedModuleIds(module_templates) :
            IF InvalidIds(module_registry, module_ids) # <<>>
            THEN /\ Returns([call EXCEPT !.result = "ValidationError",
                                         !.invalid = InvalidIds(module_registry, module_ids)])
                 /\ UNCHANGED <<organizations, sessions>>
            ELSE \E valid_ids \in Orderings(ValidIds(module_registry, module_ids)) :
                 /\ organizations' =
                       [organizations EXCEPT ![organization_id] =
                           [industry_code |-> industry_code,
                            industry_name |-> The(template).industry_name]]
                 /\ sessions' = [sessions EXCEPT ![p] =
                        [pc |-> "applying", found |-> {},
                         call |-> [call EXCEPT !.module_ids = valid_ids,
                                               !.value = {organizations[organization_id]}]]]
                 /\ UNCHANGED <<last, prev>>
    /\ UNCHANGED <<module_registry, industry_templates, industry_module_templates,
                   organization_modules, redis, bus, now>>

\* ... its call of ModuleService.bulk_assign_modules(valid_ids, industry_code)
ApplyBulkAssign(p, kafka_ok, redis_ok) ==
    LET call == sessions[p].call
    IN
    /\ sessions[p].pc = "applying"
    /\ \E order \in Orderings(ValidIds(module_registry, call.module_ids)) :
       \E ts \in ClockReadings(Len(order)) :
           BulkAssign(call, call.org, call.module_ids, call.industry_code, order, ts,
                      kafka_ok, redis_ok)
    /\ sessions' = [sessions EXCEPT ![p] = IdleSession]
    /\ UNCHANGED <<module_registry, industry_templates, industry_module_templates,
                   organizations>>

----------------------------------------------------------------------------
(* Specifications *)

UpdateBodies ==
    [is_enabled : {"unset", None, "True", "False"},
     config : {"unset", None} \cup Configs]

\* outcomes of the calls to Redis and to the broker in the sequential runs
RedisOutcomes == {TRUE}
KafkaOutcomes == {FALSE}
Tenants == {"acme"}
Requested == {"projects"}
AssignConfigs == {None} \cup Configs

\* Requests of one tenant for one module, handled one at a time: the
\* registry operations and the assignment operations
Next ==
    \/ \E m \in Requested, k \in KafkaOutcomes, r \in RedisOutcomes : RegisterModule(m, k, r)
    \/ \E m \in Requested, r \in RedisOutcomes : ActivateModule(m, r)
    \/ \E m \in Requested, r \in RedisOutcomes : DeactivateModule(m, r)
    \/ \E o \in Tenants, m \in Requested, e \in BOOLEAN, c \in Configs, t \in now..MaxTime :
          EnableModule(o, m, e, c, t)
    \/ \E o \in Tenants, m \in Requested, u \in UpdateBodies, t \in now..MaxTime :
          UpdateModule(o, m, u, t)
    \/ \E o \in Tenants, r \in RedisOutcomes : ListModules(o, r)
    \/ \E o \in Tenants, m \in Requested, c \in AssignConfigs, t \in now..MaxTime,
          k \in KafkaOutcomes, r \in RedisOutcomes : AssignModule(o, m, c, t, k, r)
    \/ \E o \in Tenants, m \in Requested, k \in KafkaOutcomes, r \in RedisOutcomes :
          UnassignModule(o, m, k, r)
    \/ \E o \in Tenants, ids \in SeqsUpTo(Requested, MaxBulk), k \in KafkaOutcomes,
          r \in RedisOutcomes : BulkAssignModules(o, ids, None, k, r)

Spec == Init /\ [][Next]_vars

\* Bulk requests of one tenant over the whole catalogue, with the registry
\* operations that make ids valid or invalid
NextBulk ==
    \/ \E m \in ModuleIds, k \in KafkaOutcomes, r \in RedisOutcomes : RegisterModule(m, k, r)
    \/ \E m \in ModuleIds, r \in RedisOutcomes : ActivateModule(m, r)
    \/ \E m \in ModuleIds, r \in RedisOutcomes : DeactivateModule(m, r)
    \/ \E o \in Tenants, ids \in SeqsUpTo(ModuleIds, MaxBulk), k \in KafkaOutcomes,
          r \in RedisOutcomes : BulkAssignModules(o, ids, None, k, r)
    \/ \E o \in Tenants, m \in ModuleIds, k \in KafkaOutcomes, r \in RedisOutcomes :
          UnassignModule(o, m, k, r)
    \/ \E o \in Tenants, r \in RedisOutcomes : ListModules(o, r)

SpecBulk == Init /\ [][NextBulk]_vars

LinkConfigs == {None, "{k:1}"}
LinkOrders == {0}

\* Industry templates: the catalogue and a template are set up, a linked
\* module may be deactivated, the template is applied to a tenant
NextTemplate ==
    \/ \E m \in ModuleIds, k \in KafkaOutcomes, r \in RedisOutcomes : RegisterModule(m, k, r)
    \/ \E m \in ModuleIds, r \in RedisOutcomes : DeactivateModule(m, r)
    \/ \E c \in IndustryCodes, n \in IndustryNames, r \in RedisOutcomes : CreateTemplate(c, n, r)
    \/ \E c \in IndustryCodes, m \in ModuleIds, q \in BOOLEAN, d \in LinkConfigs,
          i \in LinkOrders, r \in RedisOutcomes : AddModuleToIndustry(c, m, q, d, i, r)
    \/ \E o \in Tenants, c \in IndustryCodes, k \in KafkaOutcomes, r \in RedisOutcomes :
          ApplyToOrganization(o, c, k, r)
    \/ \E o \in Tenants, r \in RedisOutcomes : ListModules(o, r)

SpecTemplate == Init /\ [][NextTemplate]_vars

\* update bodies that change the config, disable or re-enable
StampBodies == [is_enabled : {"unset", "True", "False"}, config : {"unset", "{k:1}"}]

\* Every operation that writes a row of one (tenant, module): assign, bulk
\* assign, template application, update and unassign
NextStamp ==
    \/ \E m \in Requested, k \in KafkaOutcomes, r \in RedisOutcomes : RegisterModule(m, k, r)
    \/ \E c \in IndustryCodes, n \in IndustryNames, r \in RedisOutcomes : CreateTemplate(c, n, r)
    \/ \E c \in IndustryCodes, m \in Requested, d \in LinkConfigs, i \in LinkOrders,
          r \in RedisOutcomes : AddModuleToIndustry(c, m, TRUE, d, i, r)
    \/ \E o \in Tenants, m \in Requested, c \in AssignConfigs, t \in now..MaxTime,
          k \in KafkaOutcomes, r \in RedisOutcomes : AssignModule(o, m, c, t, k, r)
    \/ \E o \in Tenants, ids \in SeqsUpTo(Requested, MaxBulk), k \in KafkaOutcomes,
          r \in RedisOutcomes : BulkAssignModules(o, ids, None, k, r)
    \/ \E o \in Tenants, c \in IndustryCodes, k \in KafkaOutcomes, r \in RedisOutcomes :
          ApplyToOrganization(o, c, k, r)
    \/ \E o \in Tenants, m \in Requested, u \in StampBodies, t \in now..MaxTime :
          UpdateModule(o, m, u, t)
    \/ \E o \in Tenants, m \in Requested, k \in KafkaOutcomes, r \in RedisOutcomes :
          UnassignModule(o, m, k, r)

SpecStamp == Init /\ [][NextStamp]_vars

ConcurrentOps == {"assign", "bulk", "enable"}

\* Two requests at a time that upsert the same (tenant, module), each a
\* lookup followed by an insert-or-update and commit
NextConc ==
    \/ \E m \in Requested, k \in KafkaOutcomes, r \in RedisOutcomes : RegisterModule(m, k, r)
    \/ \E p \in Procs, op \in ConcurrentOps, o \in Tenants, m \in Requested, c \in {EmptyDict} :
          CreateOrUpdateLookup(p, op, o, m, c)
    \/ \E p \in Procs, t \in now..MaxTime, k \in KafkaOutcomes, r \in RedisOutcomes :
          CreateOrUpdateCommit(p, t, k, r)

SpecConc == Init /\ [][NextConc]_vars

BrokerOutcomes == {TRUE}
WriteOps == {"assign", "unassign"}

\* A list read-through next to writes of the same tenant, with the consumer
NextCache ==
    \/ \E m \in Requested, k \in BrokerOutcomes, r \in RedisOutcomes : RegisterModule(m, k, r)
    \/ \E p \in Procs, o \in Tenants, r \in RedisOutcomes : ListModulesRead(p, o, r)
    \/ \E p \in Procs, r \in RedisOutcomes : ListModulesPopulate(p, r)
    \/ \E p \in Procs, op \in WriteOps, o \in Tenants, m \in Requested :
          WriteCommit(p, op, o, m, EmptyDict, now)
    \/ \E p \in Procs, k \in BrokerOutcomes : WritePublish(p, k)
    \/ \E p \in Procs, r \in RedisOutcomes : WriteInvalidate(p, r)
    \/ \E topic \in SubscribedTopics, r \in RedisOutcomes : ConsumeModuleEvents(topic, r)

SpecCache == Init /\ [][NextCache]_vars

\* update bodies that leave the row as it is or disable it
EventBodies == [is_enabled : {"unset", "False"}, config : {"unset"}]

\* Every mutating operation with the broker up, and the consumer
NextEvents ==
    \/ \E m \in Requested, k \in BrokerOutcomes, r \in RedisOutcomes : RegisterModule(m, k, r)
    \/ \E m \in Requested, r \in RedisOutcomes : DeactivateModule(m, r)
    \/ \E c \in IndustryCodes, n \in IndustryNames, r \in RedisOutcomes : CreateTemplate(c, n, r)
    \/ \E c \in IndustryCodes, m \in Requested, i \in LinkOrders, r \in RedisOutcomes :
          AddModuleToIndustry(c, m, TRUE, None, i, r)
    \/ \E o \in Tenants, c \in IndustryCodes, k \in BrokerOutcomes, r \in RedisOutcomes :
          ApplyToOrganization(o, c, k, r)
    \/ \E o \in Tenants, m \in Requested, k \in BrokerOutcomes, r \in RedisOutcomes :
          AssignModule(o, m, EmptyDict, now, k, r)
    \/ \E o \in Tenants, m \in Requested, k \in BrokerOutcomes, r \in RedisOutcomes :
          UnassignModule(o, m, k, r)
    \/ \E o \in Tenants, ids \in SeqsUpTo(Requested, MaxBulk), k \in BrokerOutcomes,
          r \in RedisOutcomes : BulkAssignModules(o, ids, None, k, r)
    \/ \E o \in Tenants, m \in Requested, u \in EventBodies : UpdateModule(o, m, u, now)
    \/ \E topic \in SubscribedTopics, r \in RedisOutcomes : ConsumeModuleEvents(topic, r)

SpecEvents == Init /\ [][NextEvents]_vars

\* The producers and the consumer, the consumer scheduled fairly: its loop
\* polls for ever, so a record waiting in a subscribed topic is delivered
NextConsume ==
    \/ \E m \in Requested, k \in BrokerOutcomes, r \in RedisOutcomes : RegisterModule(m, k, r)
    \/ \E o \in Tenants, m \in Requested, k \in BrokerOutcomes, r \in RedisOutcomes :
          AssignModule(o, m, EmptyDict, now, k, r)
    \/ \E o \in Tenants, m \in Requested, k \in BrokerOutcomes, r \in RedisOutcomes :
          UnassignModule(o, m, k, r)
    \/ \E o \in Tenants, ids \in SeqsUpTo(Requested, MaxBulk), k \in BrokerOutcomes,
          r \in RedisOutcomes : BulkAssignModules(o, ids, None, k, r)
    \/ \E o \in Tenants, r \in RedisOutcomes : ListModules(o, r)
    \/ \E topic \in SubscribedTopics, r \in RedisOutcomes : ConsumeModuleEvents(topic, r)

SpecConsume ==
    /\ Init
    /\ [][NextConsume]_vars
    /\ \A topic \in SubscribedTopics :
          WF_vars(\E r \in RedisOutcomes : ConsumeModuleEvents(topic, r))

\* Bulk requests whose loop the database may fail part-way, with the reads
\* that populate and use the tenant's cached list
NextPartial ==
    \/ \E m \in ModuleIds, k \in BrokerOutcomes, r \in RedisOutcomes : RegisterModule(m, k, r)
    \/ \E o \in Tenants, ids \in SeqsUpTo(ModuleIds, MaxBulk), k \in BrokerOutcomes,
          r \in RedisOutcomes : BulkAssignModules(o, ids, None, k, r)
    \/ \E o \in Tenants, ids \in SeqsUpTo(ModuleIds, MaxBulk) :
       \E order \in Orderings(ValidIds(module_registry, ids)), k \in 1..MaxBulk :
       \E ts \in ClockReadings(Len(order)) : BulkAssignStoreError(o, ids, None, order, ts, k)
    \/ \E o \in Tenants, r \in RedisOutcomes : ListModules(o, r)

SpecPartial == Init /\ [][NextPartial]_vars

\* Two tenants issuing the assignment operations for one module
NextTenants ==
    \/ \E m \in Requested, k \in KafkaOutcomes, r \in RedisOutcomes : RegisterModule(m, k, r)
    \/ \E c \in IndustryCodes, n \in IndustryNames, r \in RedisOutcomes : CreateTemplate(c, n, r)
    \/ \E c \in IndustryCodes, m \in Requested, i \in LinkOrders, r \in RedisOutcomes :
          AddModuleToIndustry(c, m, TRUE, None, i, r)
    \/ \E o \in OrgIds, m \in Requested, k \in KafkaOutcomes, r \in RedisOutcomes :
          AssignModule(o, m, EmptyDict, now, k, r)
    \/ \E o \in OrgIds, m \in Requested, k \in KafkaOutcomes, r \in RedisOutcomes :
          UnassignModule(o, m, k, r)
    \/ \E o \in OrgIds, ids \in SeqsUpTo(Requested, 1), k \in KafkaOutcomes,
          r \in RedisOutcomes : BulkAssignModules(o, ids, None, k, r)
    \/ \E o \in OrgIds, m \in Requested, u \in EventBodies : UpdateModule(o, m, u, now)
    \/ \E o \in OrgIds, c \in IndustryCodes, k \in KafkaOutcomes, r \in RedisOutcomes :
          ApplyToOrganization(o, c, k, r)
    \/ \E o \in OrgIds, r \in RedisOutcomes : ListModules(o, r)

SpecTenants == Init /\ [][NextTenants]_vars

\* the industry_code argument of a bulk assign: omitted, or a code
BulkCodes == {None} \cup IndustryCodes

\* One tenant's row written by assign and update, then overwritten by bulk
\* assigns and template applications, the template live or soft-deleted
NextOverwrite ==
    \/ \E m \in Requested, k \in KafkaOutcomes, r \in RedisOutcomes : RegisterModule(m, k, r)
    \/ \E c \in IndustryCodes, n \in IndustryNames, r \in RedisOutcomes : CreateTemplate(c, n, r)
    \/ \E c \in IndustryCodes, r \in RedisOutcomes : DeleteTemplate(c, r)
    \/ \E c \in IndustryCodes, m \in Requested, d \in LinkConfigs, i \in LinkOrders,
          r \in RedisOutcomes : AddModuleToIndustry(c, m, TRUE, d, i, r)
    \/ \E o \in Tenants, m \in Requested, c \in Configs, k \in KafkaOutcomes,
          r \in RedisOutcomes : AssignModule(o, m, c, now, k, r)
    \/ \E o \in Tenants, m \in Requested, u \in EventBodies : UpdateModule(o, m, u, now)
    \/ \E o \in Tenants, ids \in SeqsUpTo(Requested, MaxBulk), c \in BulkCodes,
          k \in KafkaOutcomes, r \in RedisOutcomes : BulkAssignModules(o, ids, c, k, r)
    \/ \E o \in Tenants, c \in IndustryCodes, k \in KafkaOutcomes, r \in RedisOutcomes :
          ApplyToOrganization(o, c, k, r)

SpecOverwrite == Init /\ [][NextOverwrite]_vars

\* Modules that are assigned and linked, then deactivated and activated
\* again, with the tenant's list read in between
NextDeactivate ==
    \/ \E m \in ModuleIds, k \in KafkaOutcomes, r \in RedisOutcomes : RegisterModule(m, k, r)
    \/ \E m \in ModuleIds, r \in RedisOutcomes : DeactivateModule(m, r)
    \/ \E m \in ModuleIds, r \in RedisOutcomes : ActivateModule(m, r)
    \/ \E c \in IndustryCodes, n \in IndustryNames, r \in RedisOutcomes : CreateTemplate(c, n, r)
    \/ \E c \in IndustryCodes, m \in ModuleIds, i \in LinkOrders, r \in RedisOutcomes :
          AddModuleToIndustry(c, m, TRUE, None, i, r)
    \/ \E o \in Tenants, m \in ModuleIds, k \in KafkaOutcomes, r \in RedisOutcomes :
          AssignModule(o, m, EmptyDict, now, k, r)
    \/ \E o \in Tenants, r \in RedisOutcomes : ListModules(o, r)

SpecDeactivate == Init /\ [][NextDeactivate]_vars

\* The registry: its writes and its two cached lists
NextRegistry ==
    \/ \E m \in ModuleIds, k \in KafkaOutcomes, r \in RedisOutcomes : RegisterModule(m, k, r)
    \/ \E m \in ModuleIds, k \in KafkaOutcomes, r \in RedisOutcomes :
          UpdateRegistryModule(m, k, r)
    \/ \E m \in ModuleIds, r \in RedisOutcomes : ActivateModule(m, r)
    \/ \E m \in ModuleIds, r \in RedisOutcomes : DeactivateModule(m, r)
    \/ \E a \in BOOLEAN, r \in RedisOutcomes : ListAll(a, r)

SpecRegistry == Init /\ [][NextRegistry]_vars

ReadOrders == {0, 1}

\* A template over the whole catalogue: links are added, modules are
\* deactivated, the links are read
NextIndustry ==
    \/ \E m \in ModuleIds, k \in KafkaOutcomes, r \in RedisOutcomes : RegisterModule(m, k, r)
    \/ \E m \in ModuleIds, r \in RedisOutcomes : DeactivateModule(m, r)
    \/ \E c \in IndustryCodes, n \in IndustryNames, r \in RedisOutcomes : CreateTemplate(c, n, r)
    \/ \E c \in IndustryCodes, m \in ModuleIds, i \in ReadOrders, r \in RedisOutcomes :
          AddModuleToIndustry(c, m, TRUE, None, i, r)
    \/ \E c \in IndustryCodes, r \in RedisOutcomes : GetModules(c, r)

SpecIndustry == Init /\ [][NextIndustry]_vars

\* Every cached operation of one tenant and one module, each call finding
\* Redis up or down
NextNoCache ==
    \/ \E m \in Requested, k \in KafkaOutcomes, r \in BOOLEAN : RegisterModule(m, k, r)
    \/ \E m \in Requested, r \in BOOLEAN : DeactivateModule(m, r)
    \/ \E a \in BOOLEAN, r \in BOOLEAN : ListAll(a, r)
    \/ \E c \in IndustryCodes, n \in IndustryNames, r \in BOOLEAN : CreateTemplate(c, n, r)
    \/ \E c \in IndustryCodes, m \in Requested, i \in LinkOrders, r \in BOOLEAN :
          AddModuleToIndustry(c, m, TRUE, None, i, r)
    \/ \E c \in IndustryCodes, r \in BOOLEAN : GetModules(c, r)
    \/ \E o \in Tenants, c \in IndustryCodes, k \in KafkaOutcomes, r \in BOOLEAN :
          ApplyToOrganization(o, c, k, r)
    \/ \E o \in Tenants, r \in BOOLEAN : ListModules(o, r)
    \/ \E o \in Tenants, m \in Requested, k \in KafkaOutcomes, r \in BOOLEAN :
          AssignModule(o, m, EmptyDict, now, k, r)
    \/ \E o \in Tenants, m \in Requested, k \in KafkaOutcomes, r \in BOOLEAN :
          UnassignModule(o, m, k, r)
    \/ \E o \in Tenants, ids \in SeqsUpTo(Requested, MaxBulk), k \in KafkaOutcomes,
          r \in BOOLEAN : BulkAssignModules(o, ids, None, k, r)

SpecNoCache == Init /\ [][NextNoCache]_vars

\* Template applications step by step, next to the registry operations
NextApply ==
    \/ \E m \in Requested, k \in KafkaOutcomes, r \in RedisOutcomes : RegisterModule(m, k, r)
    \/ \E m \in Requested, r \in RedisOutcomes : DeactivateModule(m, r)
    \/ \E c \in IndustryCodes, n \in IndustryNames, r \in RedisOutcomes : CreateTemplate(c, n, r)
    \/ \E c \in IndustryCodes, m \in Requested, i \in LinkOrders, r \in RedisOutcomes :
          AddModuleToIndustry(c, m, TRUE, None, i, r)
    \/ \E p \in Procs, o \in Tenants, c \in IndustryCodes : ApplyValidateCommit(p, o, c)
    \/ \E p \in Procs, k \in KafkaOutcomes, r \in RedisOutcomes : ApplyBulkAssign(p, k, r)

SpecApply == Init /\ [][NextApply]_vars

\* outcomes of the calls to Redis and to the broker when either may be down
Outcomes == BOOLEAN

\* The requests of one tenant for one module, each call reaching or not
\* reaching the broker and Redis
NextDegraded ==
    \/ \E m \in Requested, k \in Outcomes, r \in Outcomes : RegisterModule(m, k, r)
    \/ \E m \in Requested, r \in Outcomes : DeactivateModule(m, r)
    \/ \E o \in Tenants, r \in Outcomes : ListModules(o, r)
    \/ \E o \in Tenants, m \in Requested, k \in Outcomes, r \in Outcomes :
          AssignModule(o, m, EmptyDict, now, k, r)
    \/ \E o \in Tenants, m \in Requested, k \in Outcomes, r \in Outcomes :
          UnassignModule(o, m, k, r)
    \/ \E o \in Tenants, ids \in SeqsUpTo(Requested, MaxBulk), k \in Outcomes,
          r \in Outcomes : BulkAssignModules(o, ids, None, k, r)

SpecDegraded == Init /\ [][NextDegraded]_vars

----------------------------------------------------------------------------
(* Steps of the requests, as action predicates *)

AssignCall(o, m, c) ==
    \E t \in now..MaxTime, k \in KafkaOutcomes, r \in RedisOutcomes :
        AssignModule(o, m, c, t, k, r)

BulkCall(o, ids) ==
    \E k \in KafkaOutcomes, r \in RedisOutcomes : BulkAssignModules(o, ids, None, k, r)

ApplyCall(o, c) ==
    \E k \in KafkaOutcomes, r \in RedisOutcomes : ApplyToOrganization(o, c, k, r)

DeactivateCall(m) == \E r \in RedisOutcomes : DeactivateModule(m, r)

ListCall(o) == \E r \in RedisOutcomes : ListModules(o, r)

Absent(m) == RegistryGetById(module_registry, m) = {}

Inactive(m) == \E e \in RegistryGetById(module_registry, m) : ~ e.is_active

\* the columns the assignment contract speaks of
Columns(r) == [is_enabled |-> r.is_enabled, config |-> r.config, enabled_at |-> r.enabled_at]

----------------------------------------------------------------------------
(* Properties of the registry and assignment operations (Spec) *)

\* C1: referential integrity -- in every reachable state every row of
\* organization_modules references a module_id present in module_registry
C1_ReferentialIntegrity ==
    \A r \in organization_modules : ~ Absent(r.module_id)

C3_BulkAllOrNothing ==
    [][\A o \in OrgIds, ids \in SeqsUpTo(ModuleIds, MaxBulk) :
          (/\ last'.op = "bulk" /\ last'.org = o /\ last'.module_ids = ids
           /\ \E i \in DOMAIN ids : Absent(ids[i]) \/ Inactive(ids[i])
           /\ BulkCall(o, ids))
          => /\ last'.result = "ValidationError"
             /\ last'.invalid = SelectSeq(ids, LAMBDA m : Absent(m) \/ Inactive(m))
             /\ organization_modules' = organization_modules]_vars

\* a bulk request naming a valid, not yet assigned module and an invalid one
\* was refused while the tenant holds an earlier assignment
C3_Witness ==
    /\ last.op = "bulk" /\ last.result = "ValidationError"
    /\ \E i \in DOMAIN last.module_ids :
          /\ ~ Absent(last.module_ids[i]) /\ ~ Inactive(last.module_ids[i])
          /\ OrgModuleMatches(organization_modules, last.org, last.module_ids[i]) = {}
    /\ \E i \in DOMAIN last.module_ids : Inactive(last.module_ids[i])
    /\ ListByOrganization(organization_modules, last.org) # {}

\* C4: a list that directly follows a successful assign or unassign of the
\* same tenant returns exactly the tenant's rows of the table; it contains
\* the module after an assign and does not contain it after an unassign
C4_ListAfterWrite ==
    [][\A o \in OrgIds :
          (/\ last.op \in {"assign", "unassign"} /\ last.result = "ok" /\ last.org = o
           /\ last'.op = "list" /\ last'.org = o
           /\ ListCall(o))
          => /\ last'.value = {r \in organization_modules : r.organization_id = o}
             /\ last.op = "assign" => \E r \in last'.value : r.module_id = last.module_id
             /\ last.op = "unassign" => \A r \in last'.value : r.module_id # last.module_id]_vars

\* a list returned the module just assigned although the tenant's cache key
\* held a value when the assign began
C4_Witness ==
    /\ last.op = "list" /\ prev.op = "assign" /\ prev.result = "ok"
    /\ prev.cached_before /\ prev.org = last.org
    /\ \E r \in last.value : r.module_id = prev.module_id

\* C5: an assign that directly repeats a successful assign with the same
\* arguments leaves exactly one row for (org, module), with is_enabled,
\* config and enabled_at as they were after the first call
C5_IdempotentAssign ==
    [][\A o \in OrgIds, m \in ModuleIds, c \in AssignConfigs :
          (/\ last.op = "assign" /\ last.result = "ok" /\ last.org = o
           /\ last.module_id = m /\ last.config = c
           /\ last'.op = "assign" /\ AssignCall(o, m, c))
          => /\ last'.result = "ok"
             /\ Cardinality(OrgModuleMatches(organization_modules', o, m)) = 1
             /\ {Columns(r) : r \in OrgModuleMatches(organization_modules', o, m)}
                  = {Columns(r) : r \in OrgModuleMatches(organization_modules, o, m)}]_vars

\* the same assign, with a non-default config, succeeded twice in a row
C5_Witness ==
    /\ last.op = "assign" /\ last.result = "ok"
    /\ prev.op = "assign" /\ prev.result = "ok"
    /\ prev.org = last.org /\ prev.module_id = last.module_id
    /\ prev.config = last.config /\ last.config \notin {None, EmptyDict}
    /\ Cardinality(OrgModuleMatches(organization_modules, last.org, last.module_id)) = 1

\* C6: a step that keeps a row of (org, module) whose enabled_at is non-null
\* keeps its enabled_at, whatever the request (assign, bulk assign, enable,
\* update with a config change, a disable or a re-enable)
C6_EnabledAtKept ==
    [][\A r \in organization_modules : \A q \in organization_modules' :
          (/\ r.enabled_at # NullTime
           /\ q.organization_id = r.organization_id /\ q.module_id = r.module_id)
          => q.enabled_at = r.enabled_at]_vars

\* a row stamped earlier went through a disable and then a re-enable by update
C6_Witness ==
    /\ last.op = "update" /\ last.result = "ok" /\ last.is_enabled = "True"
    /\ prev.op = "update" /\ prev.result = "ok" /\ prev.is_enabled = "False"
    /\ prev.org = last.org /\ prev.module_id = last.module_id
    /\ \E r \in last.value : r.is_enabled /\ r.enabled_at # NullTime /\ r.enabled_at < MaxTime

\* C7: in every reachable state every row with is_enabled = true has a
\* non-null enabled_at
C7_EnabledRowsStamped ==
    \A r \in organization_modules : r.is_enabled => r.enabled_at # NullTime

----------------------------------------------------------------------------
(* Properties of the industry templates (SpecTemplate) *)

\* what a link promises the tenant: the module, enabled, with the link's default_config
Promised(l) == [module_id |-> l.module_id, is_enabled |-> TRUE, config |-> l.default_config]

Granted(r) == [module_id |-> r.module_id, is_enabled |-> r.is_enabled, config |-> r.config]

\* C8: applying a template whose links all name active modules to a tenant
\* without assignments succeeds; the tenant then holds exactly one enabled
\* row per link, with the link's default_config, its industry_code and
\* industry_name are the template's, and the list that follows returns
\* exactly those rows
C8_TemplateApplied ==
    [][\A o \in OrgIds, c \in IndustryCodes :
          LET links == ModulesForIndustry(industry_module_templates, c)
              mine == {r \in organization_modules' : r.organization_id = o}
          IN
          /\ (/\ last'.op = "apply" /\ last'.org = o /\ last'.industry_code = c
               /\ {r \in organization_modules : r.organization_id = o} = {}
               /\ TemplateGetByCode(industry_templates, c) # {}
               /\ links # {}
               /\ \A l \in links : ~ Absent(l.module_id) /\ ~ Inactive(l.module_id)
               /\ ApplyCall(o, c))
              => /\ last'.result = "ok"
                 /\ {Granted(r) : r \in mine} = {Promised(l) : l \in links}
                 /\ Cardinality(mine) = Cardinality(links)
                 /\ organizations'[o].industry_code = c
                 /\ \A t \in TemplateGetByCode(industry_templates, c) :
                        organizations'[o].industry_name = t.industry_name
          /\ (/\ last.op = "apply" /\ last.result = "ok" /\ last.org = o
               /\ last'.op = "list" /\ last'.org = o
               /\ ListCall(o))
              => last'.value = {r \in organization_modules : r.organization_id = o}]_vars

\* a list, following the application of a template with a required and an
\* optional link to a tenant whose cache key held a value, returned both
\* modules, one of them with a non-empty default_config
C8_Witness ==
    /\ last.op = "list" /\ prev.op = "apply" /\ prev.result = "ok"
    /\ prev.org = last.org /\ prev.cached_before
    /\ {r.module_id : r \in last.value} = ModuleIds
    /\ \E r \in last.value : r.config # EmptyDict
    /\ \E l \in industry_module_templates : l.is_required
    /\ \E l \in industry_module_templates : ~ l.is_required
    /\ organizations[last.org].industry_code = prev.industry_code

\* C9: deactivating a module leaves every template link in place, and
\* applying a template that links an inactive module fails with
\* ValidationError naming every such module, leaving the tenant's industry
\* columns and the assignment table as they were
C9_SoftDeleteTolerance ==
    [][/\ \A m \in ModuleIds :
             (last'.op = "deactivate" /\ last'.module_id = m /\ DeactivateCall(m))
             => industry_module_templates' = industry_module_templates
       /\ \A o \in OrgIds, c \in IndustryCodes :
             LET links == ModulesForIndustry(industry_module_templates, c)
             IN  (/\ last'.op = "apply" /\ last'.org = o /\ last'.industry_code = c
                  /\ \E l \in links : Inactive(l.module_id)
                  /\ ApplyCall(o, c))
                 => /\ last'.result = "ValidationError"
                    /\ \A l \in links :
                          Inactive(l.module_id) => l.module_id \in Range(last'.invalid)
                    /\ organizations' = organizations
                    /\ organization_modules' = organization_modules]_vars

\* a template was refused right after one of its linked modules was deactivated
C9_Witness ==
    /\ last.op = "apply" /\ last.result = "ValidationError"
    /\ prev.op = "deactivate" /\ prev.result = "ok"
    /\ prev.module_id \in Range(last.invalid)
    /\ \E l \in ModulesForIndustry(industry_module_templates, last.industry_code) :
          l.module_id = prev.module_id
    /\ organizations[last.org].industry_code = None

----------------------------------------------------------------------------
(* Properties of concurrent requests (SpecConc) *)

\* C10: under any interleaving of concurrent assign, bulk assign and enable
\* requests for one (organization_id, module_id) the table never holds more
\* than one row for that pair
C10_OneRowPerModule ==
    \A o \in OrgIds, m \in ModuleIds :
        Cardinality(OrgModuleMatches(organization_modules, o, m)) <= 1

----------------------------------------------------------------------------
(* Properties of the cache under concurrent requests (SpecCache) *)

\* no write of the tenant is between its commit and its response
WritesReturned(o) ==
    \A p \in Procs : sessions[p].pc \in {"committed", "published"} => sessions[p].call.org # o

\* no event of the tenant waits in a topic
EventsConsumed(o) == \A e \in Pending(bus) : e.organization_id # o

\* C11: once the writes of a tenant have returned and their events have
\* been consumed, the entry org:{org}:modules is absent or equals the
\* tenant's rows of the table
C11_BoundedStaleness ==
    \A o \in OrgIds :
        (WritesReturned(o) /\ EventsConsumed(o))
        => \/ redis[OrgModulesKey(o)] = {}
           \/ redis[OrgModulesKey(o)] = {{r \in organization_modules : r.organization_id = o}}

----------------------------------------------------------------------------
(* Properties of the operations when the broker or Redis fails (SpecDegraded) *)

\* C12: an assign, unassign, bulk assign or register that passes its
\* validation answers success and leaves its write in the store, whatever
\* the outcome of the publication and of the cache delete
C12_BestEffortSideEffects ==
    [][\A o \in Tenants, m \in Requested, k \in Outcomes, r \in Outcomes :
          /\ (/\ last'.op = "assign" /\ last'.org = o /\ last'.module_id = m
              /\ ~ Absent(m) /\ ~ Inactive(m)
              /\ AssignModule(o, m, EmptyDict, now, k, r))
             => /\ last'.result = "ok"
                /\ \E row \in OrgModuleMatches(organization_modules', o, m) :
                      row.is_enabled /\ row.config = EmptyDict
          /\ (/\ last'.op = "unassign" /\ last'.org = o /\ last'.module_id = m
              /\ OrgModuleMatches(organization_modules, o, m) # {}
              /\ UnassignModule(o, m, k, r))
             => /\ last'.result = "ok"
                /\ \E row \in OrgModuleMatches(organization_modules, o, m) :
                      organization_modules' = organization_modules \ {row}
          /\ (/\ last'.op = "register" /\ last'.module_id = m /\ Absent(m) /\ RegisterModule(m, k, r))
             => /\ last'.result = "ok"
                /\ RegistryGetById(module_registry', m) # {}
          /\ \A ids \in SeqsUpTo(Requested, MaxBulk) :
                (/\ last'.op = "bulk" /\ last'.org = o /\ last'.module_ids = ids
                 /\ InvalidIds(module_registry, ids) = <<>>
                 /\ BulkAssignModules(o, ids, None, k, r))
                => /\ last'.result = "ok"
                   /\ \A i \in 1..Len(ids) :
                         \E row \in OrgModuleMatches(organization_modules', o, ids[i]) :
                             row.is_enabled]_vars

\* an assign has answered success with its row stored although its event
\* was not published and the cached list was not deleted
C12_Witness ==
    /\ last.op = "assign" /\ last.result = "ok" /\ last.cached_before
    /\ redis[OrgModulesKey(last.org)] # {}
    /\ bus[TopicOf(ModuleAssigned)] = <<>>
    /\ OrgModuleMatches(organization_modules, last.org, last.module_id) # {}

----------------------------------------------------------------------------
(* Properties of the events (SpecEvents) *)

\* the step hands exactly one event of the type to the producer
Publishes(event_type, organization_id) ==
    bus' = PublishModuleEvent(bus, event_type, organization_id, TRUE)

\* C13: every successful register, deactivate, assign, unassign, bulk
\* assign, template application and update publishes exactly one event of
\* its type: module.registered, a deactivation event, module.assigned,
\* module.unassigned, module.bulk_assigned, industry.template_applied,
\* module.config_updated
C13_EveryMutationPublishes ==
    [][\A o \in Tenants, m \in Requested, r \in RedisOutcomes :
          /\ (/\ last'.op = "register" /\ last'.result = "ok"
              /\ RegisterModule(m, TRUE, r)) => Publishes(ModuleRegistered, SystemOrg)
          /\ (/\ last'.op = "deactivate" /\ last'.result = "ok"
              /\ DeactivateModule(m, r)) => bus' # bus
          /\ (/\ last'.op = "assign" /\ last'.result = "ok"
              /\ AssignModule(o, m, EmptyDict, now, TRUE, r)) => Publishes(ModuleAssigned, o)
          /\ (/\ last'.op = "unassign" /\ last'.result = "ok"
              /\ UnassignModule(o, m, TRUE, r)) => Publishes(ModuleUnassigned, o)
          /\ (/\ last'.op = "bulk" /\ last'.result = "ok"
              /\ \E ids \in SeqsUpTo(Requested, MaxBulk) :
                    BulkAssignModules(o, ids, None, TRUE, r))
             => Publishes(ModuleBulkAssigned, o)
          /\ (/\ last'.op = "apply" /\ last'.result = "ok"
              /\ \E c \in IndustryCodes : ApplyToOrganization(o, c, TRUE, r))
             => Publishes(IndustryTemplateApplied, o)
          /\ (/\ last'.op = "update" /\ last'.result = "ok"
              /\ \E u \in EventBodies : UpdateModule(o, m, u, now))
             => Publishes(ModuleConfigUpdated, o)]_vars

\* C14: the consumer handles the events of one organization_id in the
\* order of their emission, also when they are of different types and so
\* lie in different topics: the event it handles is the oldest pending
\* event of its organization
C14_PerTenantEventOrder ==
    [][\A topic \in SubscribedTopics, r \in RedisOutcomes :
          ConsumeModuleEvents(topic, r)
          => \A e \in Pending(bus) :
                e.organization_id = Head(bus[topic]).organization_id
                => Head(bus[topic]).emitted <= e.emitted]_vars

----------------------------------------------------------------------------
(* Properties of the caches after writes *)

\* C16: when a successful update_module(org, module, fields) returns, the
\* key org:{org}:modules is absent, so that the next list reads the
\* updated row from the table
C16_UpdateInvalidates ==
    [][\A o \in Tenants, m \in Requested, u \in UpdateBodies :
          (/\ last'.op = "update" /\ last'.result = "ok"
           /\ last'.org = o /\ last'.module_id = m
           /\ \E t \in now..MaxTime : UpdateModule(o, m, u, t))
          => redis'[OrgModulesKey(o)] = {}]_vars

RegistryWrites == {"register", "update_registry", "activate", "deactivate"}

\* C17: the list_all(active_only) that follows a successful register,
\* update, activate or deactivate returns the registry's current entries
\* (the active ones when active_only), for either value of the flag and
\* whatever an earlier list_all has cached
C17_RegistryListReflectsWrites ==
    [][\A a \in BOOLEAN, r \in RedisOutcomes :
          (/\ last.op \in RegistryWrites /\ last.result = "ok"
           /\ last'.op = ListAllOp(a)
           /\ ListAll(a, r))
          => last'.value = RegistryListAll(module_registry, a)]_vars

----------------------------------------------------------------------------
(* Properties of the template links (SpecIndustry) *)

C19_AddModuleStrict ==
    [][\A c \in IndustryCodes, m \in ModuleIds, i \in ReadOrders, r \in RedisOutcomes :
          (/\ last'.op = "add_link" /\ last'.industry_code = c /\ last'.module_id = m
           /\ AddModuleToIndustry(c, m, TRUE, None, i, r))
          => IF TemplateGetByCode(industry_templates, c) = {} \/ Absent(m) \/ Inactive(m)
             THEN /\ last'.result = "NotFound"
                  /\ industry_module_templates' = industry_module_templates
             ELSE (\E mt \in ModulesForIndustry(industry_module_templates, c) :
                      mt.module_id = m)
                  => /\ last'.result = "ValidationError"
                     /\ industry_module_templates' = industry_module_templates]_vars

----------------------------------------------------------------------------
(* Order of the steps of a write (SpecCache) *)

\* C20: a successful mutation validates, then commits, then deletes the
\* cache key, then publishes the event: when a request deletes its cache
\* key it has not yet published its event
C20_InvalidateBeforePublish ==
    [][\A p \in Procs, r \in RedisOutcomes :
          WriteInvalidate(p, r) => sessions[p].pc # "published"]_vars

----------------------------------------------------------------------------
(* Properties of the operations when Redis is down (SpecNoCache) *)

\* what a call answers when nothing but the store is consulted
StoreResults == {"ok", "NotFound", "ValidationError"}

\* C15: a call that finds the cache unavailable completes without a
\* cache-caused error, leaves the cache as it was, and answers and writes
\* what the store alone determines: the reads return the rows of the
\* tables, the writes apply the repository's change
C15_CacheUnavailable ==
    [][\A o \in Tenants, m \in Requested, c \in IndustryCodes, k \in KafkaOutcomes :
          /\ (last'.op = "list" /\ ListModules(o, FALSE))
             => /\ last'.result = "ok" /\ redis' = redis
                /\ last'.value = ListByOrganization(organization_modules, o)
          /\ \A a \in BOOLEAN :
                (last'.op = ListAllOp(a) /\ ListAll(a, FALSE))
                => /\ last'.result = "ok" /\ redis' = redis
                   /\ last'.value = RegistryListAll(module_registry, a)
          /\ (last'.op = "get_modules" /\ GetModules(c, FALSE))
             => /\ redis' = redis
                /\ IF TemplateGetByCode(industry_templates, c) = {}
                   THEN last'.result = "NotFound"
                   ELSE /\ last'.result = "ok"
                        /\ Range(last'.value) =
                             {l \in ModulesForIndustry(industry_module_templates, c) :
                                 ~ Absent(l.module_id) /\ ~ Inactive(l.module_id)}
          /\ (last'.op = "assign" /\ last'.org = o /\ last'.module_id = m /\ AssignModule(o, m, EmptyDict, now, k, FALSE))
             => /\ redis' = redis
                /\ IF Absent(m) \/ Inactive(m)
                   THEN /\ last'.result = IF Absent(m) THEN "NotFound" ELSE "ValidationError"
                        /\ organization_modules' = organization_modules
                   ELSE /\ last'.result = "ok"
                        /\ \E found \in First(OrgModuleMatches(organization_modules, o, m)) :
                              organization_modules' =
                                  CreateOrUpdate(organization_modules, found, o,
                                                 ModuleCreate(m, TRUE, EmptyDict), now)
          /\ (last'.op = "unassign" /\ last'.org = o /\ last'.module_id = m /\ UnassignModule(o, m, k, FALSE))
             => /\ redis' = redis
                /\ IF OrgModuleMatches(organization_modules, o, m) = {}
                   THEN /\ last'.result = "NotFound"
                        /\ organization_modules' = organization_modules
                   ELSE /\ last'.result = "ok"
                        /\ \E row \in OrgModuleMatches(organization_modules, o, m) :
                              organization_modules' = organization_modules \ {row}
          /\ (last'.op = "register" /\ RegisterModule(m, k, FALSE))
             => /\ redis' = redis
                /\ IF Absent(m)
                   THEN /\ last'.result = "ok"
                        /\ module_registry' = RegistryCreate(module_registry, m)
                   ELSE /\ last'.result = "ValidationError"
                        /\ module_registry' = module_registry
          /\ (last'.op = "deactivate" /\ DeactivateModule(m, FALSE))
             => /\ redis' = redis
                /\ last'.result = IF Absent(m) THEN "NotFound" ELSE "ok"
                /\ \A e \in module_registry' : e.module_id = m => ~ e.is_active
          /\ \A ids \in SeqsUpTo(Requested, MaxBulk) :
                (/\ last'.op = "bulk" /\ last'.module_ids = ids
                 /\ BulkAssignModules(o, ids, None, k, FALSE))
                => /\ redis' = redis
                   /\ IF InvalidIds(module_registry, ids) # <<>>
                      THEN /\ last'.result = "ValidationError"
                           /\ organization_modules' = organization_modules
                      ELSE /\ last'.result = "ok"
                           /\ \A mid \in Range(ids) :
                                 \E row \in OrgModuleMatches(organization_modules', o, mid) :
                                     row.is_enabled
          /\ (last'.op = "apply" /\ ApplyToOrganization(o, c, k, FALSE))
             => /\ redis' = redis
                /\ last'.result \in StoreResults
                /\ last'.result = "ok"
                   => \A l \in ModulesForIndustry(industry_module_templates, c) :
                         \E row \in OrgModuleMatches(organization_modules', o, l.module_id) :
                             row.is_enabled
          /\ (/\ last'.op \in {"create_template", "add_link"}
              /\ \/ \E n \in IndustryNames : CreateTemplate(c, n, FALSE)
                 \/ \E i \in LinkOrders : AddModuleToIndustry(c, m, TRUE, None, i, FALSE))
             => /\ redis' = redis
                /\ last'.result \in StoreResults]_vars

\* a list has answered with the tenant's rows of the table while the
\* cache, unreachable, still held a list
C15_Witness ==
    /\ last.op = "list" /\ last.result = "ok" /\ last.cached_before
    /\ last.value # {}
    /\ last.value = ListByOrganization(organization_modules, last.org)

----------------------------------------------------------------------------
(* Properties of a template application step by step (SpecApply) *)

\* C21: an operation that answers ValidationError or NotFound has written
\* nothing: when apply_to_organization(org, code) answers an error -- also
\* when a deactivate of a linked module falls between its own validation
\* and the validation of bulk_assign_modules -- the organization's
\* industry_code / industry_name and its assignment rows are as they were
\* when the call began
C21_ValidationBeforePersistence ==
    [][\A p \in Procs :
          /\ \A o \in Tenants, c \in IndustryCodes :
                (ApplyValidateCommit(p, o, c) /\ sessions'[p].pc = "idle")
                => /\ organizations' = organizations
                   /\ organization_modules' = organization_modules
          /\ \A k \in KafkaOutcomes, r \in RedisOutcomes :
                (ApplyBulkAssign(p, k, r) /\ last'.result # "ok")
                => /\ organizations'[sessions[p].call.org] \in sessions[p].call.value
                   /\ organization_modules' = organization_modules]_vars


----------------------------------------------------------------------------
(* The consumer's contract (SpecConsume) *)

\* C22: every event the producer publishes, of a tenant type or of the
\* registry types module.registered / module.updated, is eventually
\* taken off its topic by the consumer, whose handler deletes the keys the
\* producing operation invalidates: no record waits in a topic for ever
C22_ConsumerReinvalidates ==
    \A t \in Topics : (bus[t] # <<>>) ~> (bus[t] = <<>>)

----------------------------------------------------------------------------
(* The life of an assignment row (Spec) *)

\* C23: each (organization, module) has at most one row, so is Unassigned,
\* Enabled or Disabled-but-present; a row is created only Enabled and only
\* by assign, bulk assign or a template application; it becomes Disabled
\* only from Enabled by an update with is_enabled = false; it is removed
\* only by unassign; no step takes it from Unassigned to Disabled
C23_AssignmentStateMachine ==
    [][\A o \in Tenants, m \in Requested :
          LET before == OrgModuleMatches(organization_modules, o, m)
              after == OrgModuleMatches(organization_modules', o, m)
              Disabled(rows) == \E r \in rows : ~ r.is_enabled
          IN  /\ Cardinality(after) <= 1
              /\ (before = {} /\ after # {})
                 => /\ ~ Disabled(after)
                    /\ last'.op \in {"assign", "bulk", "apply"}
              /\ (~ Disabled(before) /\ Disabled(after))
                 => /\ before # {}
                    /\ last'.op = "update" /\ last'.is_enabled = "False"
              /\ (before # {} /\ after = {}) => last'.op = "unassign"]_vars

----------------------------------------------------------------------------
(* Bulk requests that fail in the store (SpecPartial) *)

\* C24: when the k-th upsert of a validated bulk assign fails in the store,
\* the caller gets the error and the rows of the first k-1 modules are in
\* the table, enabled and with the configuration the loop gave them; the
\* rows of the k-th and later modules are as they were
C24_PerRowBulkPersistence ==
    [][\A o \in Tenants, ids \in SeqsUpTo(ModuleIds, MaxBulk) :
       \A order \in Orderings(ValidIds(module_registry, ids)), k \in 1..MaxBulk :
          (/\ last'.op = "bulk" /\ last'.module_ids = ids
           /\ \E ts \in ClockReadings(Len(order)) :
                 BulkAssignStoreError(o, ids, None, order, ts, k))
          => /\ last'.result = "StoreError"
             /\ \A i \in 1..(k - 1) :
                   \E r \in OrgModuleMatches(organization_modules', o, order[i]) :
                      r.is_enabled /\ r.config = EmptyDict
             /\ \A i \in k..Len(order) :
                   OrgModuleMatches(organization_modules', o, order[i])
                   = OrgModuleMatches(organization_modules, o, order[i])]_vars

\* a bulk assign that failed at its second upsert after it inserted the
\* row of its first module
C24_Witness ==
    /\ last.op = "bulk" /\ last.result = "StoreError"
    /\ last.value # {} /\ last.value \subseteq organization_modules
    /\ \E m \in Range(last.module_ids) :
          OrgModuleMatches(organization_modules, last.org, m) = {}

\* C30: a bulk assign that fails in the store at its k-th upsert deletes no
\* cache key and publishes no event; the list_modules that follows it and
\* finds the tenant's key populated answers the cached list, whatever rows
\* the failed call has committed
C30_PartialBulkSkipsInvalidation ==
    [][\A o \in Tenants :
          /\ (/\ last'.op = "bulk" /\ last'.result = "StoreError"
              /\ \E ids \in SeqsUpTo(ModuleIds, MaxBulk) :
                 \E order \in Orderings(ValidIds(module_registry, ids)), k \in 1..MaxBulk :
                 \E ts \in ClockReadings(Len(order)) :
                    BulkAssignStoreError(o, ids, None, order, ts, k))
             => redis' = redis /\ bus' = bus
          /\ (/\ last.op = "bulk" /\ last.result = "StoreError" /\ last.org = o
              /\ last'.op = "list" /\ last'.cached_before
              /\ \E r \in RedisOutcomes : ListModules(o, r))
             => /\ last'.value \in redis[OrgModulesKey(o)]
                /\ redis' = redis]_vars

\* a list answered from the cache, empty, right after a failed bulk assign
\* that left rows of the tenant in the table
C30_Witness ==
    /\ last.op = "list" /\ last.cached_before /\ last.value = {}
    /\ prev.op = "bulk" /\ prev.result = "StoreError"
    /\ ListByOrganization(organization_modules, last.org) # {}

----------------------------------------------------------------------------
(* Tenant isolation (SpecTenants) *)

\* the assignment operations, which name the organization they act for
TenantOps == {"assign", "unassign", "bulk", "update", "apply", "list"}

\* C25: an assign, unassign, bulk assign, update, template application or
\* list issued for organization X returns only rows of X, changes no cache
\* key but org:{X}:modules, and leaves the rows, the cache entry and the
\* industry columns of every other organization as they were
C25_TenantIsolation ==
    [][\A x \in OrgIds :
          (last'.org = x /\ last'.op \in TenantOps /\ prev' = Summary(last))
          => /\ \A r \in last'.value : r.organization_id = x
             /\ \A key \in CacheKeys \ {OrgModulesKey(x)} : redis'[key] = redis[key]
             /\ \A y \in OrgIds \ {x} :
                   /\ {r \in organization_modules' : r.organization_id = y}
                      = {r \in organization_modules : r.organization_id = y}
                   /\ organizations'[y] = organizations[y]]_vars

\* a tenant's unassign succeeded while the other tenant holds a row and the
\* industry columns a template application gave it
C25_Witness ==
    /\ last.op = "unassign" /\ last.result = "ok" /\ last.org = "acme"
    /\ \E r \in organization_modules : r.organization_id = "beta"
    /\ organizations["beta"].industry_code # None
    /\ organizations["acme"].industry_code = None

----------------------------------------------------------------------------
(* Bulk assigns and soft-deleted templates (SpecOverwrite) *)

\* C26: after a successful bulk assign every listed module's row is enabled
\* and its config is the default_config of the template's link for the
\* module, or {} when no industry_code is given, the template does not
\* exist or has no link for the module -- whatever the row held before
C26_BulkOverwritesConfig ==
    [][\A o \in Tenants, ids \in SeqsUpTo(Requested, MaxBulk), c \in BulkCodes :
          (/\ last'.op = "bulk" /\ last'.result = "ok"
           /\ last'.module_ids = ids /\ last'.industry_code = c
           /\ \E k \in KafkaOutcomes, r \in RedisOutcomes : BulkAssignModules(o, ids, c, k, r))
          => \A m \in Range(ids) :
                LET links == {l \in industry_module_templates :
                                 /\ c # None
                                 /\ \E t \in industry_templates : t.industry_code = c
                                 /\ l.industry_code = c /\ l.module_id = m}
                    rows == {r \in organization_modules' :
                                r.organization_id = o /\ r.module_id = m}
                IN  /\ rows # {}
                    /\ \A r \in rows :
                          /\ r.is_enabled
                          /\ IF links = {} THEN r.config = EmptyDict
                             ELSE \E l \in links : r.config = l.default_config]_vars

\* a bulk assign naming a template re-enabled a row an update had disabled
\* and replaced the config an assign had given it by the link's
C26_Witness ==
    /\ last.op = "bulk" /\ last.result = "ok" /\ last.industry_code # None
    /\ prev.op = "update" /\ prev.result = "ok" /\ prev.is_enabled = "False"
    /\ prev.org = last.org /\ prev.module_id \in Range(last.module_ids)
    /\ \E r \in last.value : r.is_enabled /\ r.config = "{k:1}"

\* C27: delete_template only clears is_active; applying a soft-deleted
\* template whose linked modules are all active succeeds, gives the tenant
\* one enabled row per link with the link's default_config and sets its
\* industry_code and industry_name to the template's
C27_SoftDeletedTemplateApplies ==
    [][\A c \in IndustryCodes :
          LET template == {t \in industry_templates : t.industry_code = c}
              links == {l \in industry_module_templates : l.industry_code = c}
          IN
          /\ (/\ last'.op = "delete_template" /\ last'.result = "ok"
              /\ \E r \in RedisOutcomes : DeleteTemplate(c, r))
             => /\ industry_templates' =
                      {[t EXCEPT !.is_active = IF t.industry_code = c THEN FALSE ELSE @] :
                          t \in industry_templates}
                /\ industry_module_templates' = industry_module_templates
          /\ \A o \in Tenants :
                (/\ last'.op = "apply" /\ last'.org = o /\ last'.industry_code = c
                 /\ \E t \in template : ~ t.is_active
                 /\ links # {}
                 /\ \A l \in links : ~ Absent(l.module_id) /\ ~ Inactive(l.module_id)
                 /\ ApplyCall(o, c))
                => /\ last'.result = "ok"
                   /\ {Granted(r) : r \in {x \in organization_modules' : x.organization_id = o}}
                      = {Promised(l) : l \in links}
                   /\ organizations'[o].industry_code = c
                   /\ \A t \in template : organizations'[o].industry_name = t.industry_name]_vars

\* a template that is soft-deleted was applied: the tenant has its code and
\* a row for its link
C27_Witness ==
    /\ last.op = "apply" /\ last.result = "ok"
    /\ \E t \in industry_templates : t.industry_code = last.industry_code /\ ~ t.is_active
    /\ prev.op = "delete_template" /\ prev.result = "ok"
    /\ organizations[last.org].industry_code = last.industry_code
    /\ last.value # {} /\ last.value \subseteq organization_modules

----------------------------------------------------------------------------
(* Refused requests, with the broker and Redis up or down (SpecDegraded) *)

\* C28: an assign of a missing or inactive module, a bulk assign with an
\* invalid id, an unassign of a pair without a row and a register of a
\* module_id already present answer their error, publish no event and
\* delete no cache key
C28_FailuresLeaveCacheAndBus ==
    [][\A o \in Tenants, m \in Requested :
          /\ (/\ last'.op = "assign" /\ (Absent(m) \/ Inactive(m))
              /\ \E k \in Outcomes, r \in Outcomes : AssignModule(o, m, EmptyDict, now, k, r))
             => /\ last'.result = IF Absent(m) THEN "NotFound" ELSE "ValidationError"
                /\ bus' = bus /\ redis' = redis
          /\ \A ids \in SeqsUpTo(Requested, MaxBulk) :
                (/\ last'.op = "bulk" /\ last'.module_ids = ids
                 /\ \E i \in 1..Len(ids) : Absent(ids[i]) \/ Inactive(ids[i])
                 /\ \E k \in Outcomes, r \in Outcomes : BulkAssignModules(o, ids, None, k, r))
                => /\ last'.result = "ValidationError"
                   /\ bus' = bus /\ redis' = redis
          /\ (/\ last'.op = "unassign"
              /\ \A r \in organization_modules : r.organization_id # o \/ r.module_id # m
              /\ \E k \in Outcomes, r \in Outcomes : UnassignModule(o, m, k, r))
             => /\ last'.result = "NotFound"
                /\ bus' = bus /\ redis' = redis
          /\ (/\ last'.op = "register" /\ ~ Absent(m)
              /\ \E k \in Outcomes, r \in Outcomes : RegisterModule(m, k, r))
             => /\ last'.result = "ValidationError"
                /\ bus' = bus /\ redis' = redis]_vars

\* an assign of a deactivated module was refused while the tenant's cache
\* key held a list and the topics had room for an event
C28_Witness ==
    /\ last.op = "assign" /\ last.result = "ValidationError"
    /\ last.cached_before /\ redis[OrgModulesKey(last.org)] # {}
    /\ Inactive(last.module_id)
    /\ \A t \in Topics : Len(bus[t]) < MaxBus

----------------------------------------------------------------------------
(* Deactivation and the tenants (SpecDeactivate) *)

\* C29: deactivate(module_id) changes nothing but the is_active flag of
\* that registry entry -- every assignment row and every template link is
\* left as it was -- and a list of a tenant returns each of its enabled
\* rows, also a row of a module whose registry entry is deactivated
C29_DeactivateLeavesTenants ==
    [][/\ \A m \in ModuleIds :
             (last'.op = "deactivate" /\ last'.module_id = m /\ DeactivateCall(m))
             => /\ organization_modules' = organization_modules
                /\ industry_module_templates' = industry_module_templates
                /\ organizations' = organizations
                /\ {e \in module_registry' : e.module_id # m}
                   = {e \in module_registry : e.module_id # m}
                /\ \A e \in module_registry' : e.module_id = m => ~ e.is_active
       /\ \A o \in Tenants :
             (last'.op = "list" /\ last'.org = o /\ ListCall(o))
             => \A r \in organization_modules :
                   (r.organization_id = o /\ r.is_enabled) => r \in last'.value]_vars

\* a list right after a deactivation returned the deactivated module's row,
\* enabled, while a template link names the module too
C29_Witness ==
    /\ last.op = "list" /\ prev.op = "deactivate" /\ prev.result = "ok"
    /\ Inactive(prev.module_id)
    /\ \E r \in last.value : r.module_id = prev.module_id /\ r.is_enabled
    /\ \E l \in industry_module_templates : l.module_id = prev.module_id
====
